---- MODULE Spec2Model ----
(***************************************************************************)
(* CodeGuard Pro: the healing state machine (the LangGraph healing graph   *)
(* and the imperative Orchestrator driven by RepoHealerEngine), webhook    *)
(* intake with inline PR analysis, installation handling, and the          *)
(* BranchManager, as state machines over the forge and the Store.          *)
(***************************************************************************)
EXTENDS Integers, Sequences, FiniteSets, TLC

(***************************************************************************)
(* Bounds of the model and constants of the program.                       *)
(***************************************************************************)
\* longest precomputed issue list handed to a heal session
MaxIssues == 1
\* `state.retry_count < 5` in retryDecision, `maxRetries = 5` in Orchestrator
MAX_RETRIES == 5

Files == {"a.js", "b.js"}
\* a failure log without a `file` (for instance the timeout entry)
NoFile == "unknown"

Nodes == <<"START", "ANALYZE", "GENERATE_FIXES", "APPLY_COMMIT", "OPEN_PR",
           "MONITOR_CI", "UPDATE_PR_AND_END">>

\* position of a node in the flow START -> ... -> UPDATE_PR_AND_END
Rank(n) == CHOOSE i \in 1..Len(Nodes) : Nodes[i] = n

\* outcomes of one fixAgent.generateFix call: a changed file, no usable fix, a throw
FixOutcomes == {"fixed", "nofix", "throw"}

RECURSIVE SeqsUpTo(_, _)
SeqsUpTo(S, n) ==
    IF n = 0 THEN {<<>>}
    ELSE LET shorter == SeqsUpTo(S, n - 1)
         IN  shorter \cup {Append(s, x) : s \in {t \in shorter : Len(t) = n - 1}, x \in S}

VARIABLES
    impl,           \* "graph": buildHealingGraph; "orch": RepoHealerEngine + Orchestrator
    node,           \* the FSM node the session is in
    allIssues,      \* the precomputed issue list the session was started with
    issues,         \* HealingState.issues / the working issue set
    fixes_applied,  \* HealingState.fixes_applied / Orchestrator.fixes
    retry_count,    \* HealingState.retry_count / Orchestrator.retryCount
    ci_status,      \* HealingState.ci_status / the status _ciRetryLoop holds
    ci_timeline,    \* HealingState.ci_timeline / Orchestrator.ciTimeline
    pr_number,      \* 0 stands for null
    failureLogs,    \* ciResult.failureLogs of the last waitForChecks
    todo,           \* _applyFixes: files of issuesByFile not yet processed
    pendingFile,    \* _applyFixes: the file whose modified content awaits commitFile
    applyIssues,    \* _applyFixes: its `issues` argument
    appliedFixes,   \* _applyFixes: length of its local appliedFixes
    caller,         \* who called _applyFixes: "run" or "loop"
    results,        \* RepoHealerEngine.results
    createPR_calls, \* calls of prCreator.createPR
    commit_calls,   \* calls of branchManager.commitFile
    updatePR_calls, \* calls of prCreator._updatePRBody
    gen_visits,     \* visits of GENERATE_FIXES
    mon_visits,     \* visits of MONITOR_CI
    wait_calls,     \* calls of ciAgent.waitForChecks
    pr_body         \* what the PR body was last written with (createPR, _updatePRBody)

healVars == <<impl, node, allIssues, issues, fixes_applied, retry_count, ci_status,
              ci_timeline, pr_number, failureLogs, todo, pendingFile, applyIssues,
              appliedFixes, caller, results, createPR_calls, commit_calls,
              updatePR_calls, gen_visits, mon_visits, wait_calls, pr_body>>

VARIABLES
    NODE_ENV,               \* process.env.NODE_ENV
    GITHUB_WEBHOOK_SECRET,  \* process.env.GITHUB_WEBHOOK_SECRET (<<>>: unset)
    deliveries,             \* webhook requests received so far
    request,                \* the last webhook request: event header, body, signature header
    response,               \* HTTP status of the last response (0: none yet)
    handled,                \* the branch of POST's switch the last request reached
    analyses                \* the Analysis records, each with the progress of its runInlineAnalysis

whVars == <<NODE_ENV, GITHUB_WEBHOOK_SECRET, deliveries, request, response, handled, analyses>>

VARIABLES
    payload,    \* the installation payload both deliveries carry
    known,      \* the repositories that had a Project before the deliveries
    users,      \* githubId of the User records
    projects,   \* the Project records, in creation order
    handler     \* the two handleInstallation calls: position and locals

instVars == <<payload, known, users, projects, handler>>

VARIABLES
    refs,       \* the forge's refs: heads/<branch> -> sha (NoRef: no such ref)
    call        \* the createBranch call in progress or just ended

brVars == <<refs, call>>

VARIABLES
    objects,    \* the forge's commit objects: shas 1..objects
    commitCall  \* the commitFile / commitMultipleFiles call in progress or just ended

cmVars == <<objects, commitCall>>

\* FixAgent.generateFix
VARIABLES
    fixCall     \* the generateFix call in progress or just ended

fixVars == <<fixCall>>

\* the AST engines' analyze
VARIABLES
    astCall     \* the analyze call in progress or just ended

astVars == <<astCall>>

\* CIAgent.waitForChecks
VARIABLES
    ckCall      \* the waitForChecks call in progress or just ended

ckVars == <<ckCall>>

\* POST /api/repo-heal
VARIABLES
    hreq,       \* the JSON body of the request
    hres,       \* the status of the response (0: none yet)
    stream,     \* the SSE stream: its state and the events enqueued
    eng         \* the RepoHealerEngine of the request

apiVars == <<hreq, hres, stream, eng>>

\* rateLimit
VARIABLES
    options,        \* maxRequests and windowMs of the limiter
    clock,          \* Date.now(), in ms
    rateLimitStore, \* key -> record (NoRecord: no entry)
    allowed,        \* per client and time, the requests that were let through
    limited,        \* the answer to the last request
    served          \* requests handled so far

rlVars == <<options, clock, rateLimitStore, allowed, limited, served>>

\* installation tokens
VARIABLES
    env,        \* which credentials the process environment holds
    tkClock,    \* wall clock, in minutes
    tokens,     \* installation id -> expiry of the last token minted for it (0: none)
    tkCalls,    \* caller -> its call of getInstallationOctokit
    octokit     \* BranchManager.octokit

tkVars == <<env, tkClock, tokens, tkCalls, octokit>>

\* GrammarLoader
VARIABLES
    initialized,    \* GrammarLoader._initialized
    initPromise,    \* GrammarLoader._initPromise
    languages,      \* the keys of GrammarLoader._languages
    glCalls,        \* caller -> its call of init, getLanguage or parse
    inits,          \* how often Parser.init was called
    loaded          \* language -> how often its grammar was loaded

glVars == <<initialized, initPromise, languages, glCalls, inits, loaded>>

\* the loop of analyze over the rules
VARIABLES
    scan        \* one call of analyze: the rules, the position in them, the result,
                \* the calls of tree.delete, the queries compiled and those released

scVars == <<scan>>

\* RepoAnalyzer._classifyViolation
VARIABLES
    cls         \* one call of _classifyViolation: the violation and the result

clVars == <<cls>>

\* DockerSandbox.runTests
VARIABLES
    sbClock,    \* Date.now(), in ms
    runs        \* invocation -> its runTests call, its docker process and its container

sbVars == <<sbClock, runs>>

\* ASTEngine.analyze from the file name to the violations
VARIABLES
    det         \* one call of analyze(sourceCode, filename, options) and its result

dtVars == <<det>>

\* one fix pass with its commits (applyCommit, Orchestrator._applyFixes)
VARIABLES
    ap          \* the fixes of the pass, the commits made and the commits that failed

apVars == <<ap>>

\* the two orchestrations side by side, given the same answers
VARIABLES
    script,     \* the answers of FixAgent, BranchManager and CIAgent for the run
    gs,         \* the session run by the healing graph
    os          \* the session run by the Orchestrator

eqVars == <<script, gs, os>>

\* heal sessions running at the same time on one repository
VARIABLES
    heads,      \* the forge's healing branches: name -> whether it exists, whose commits it holds
    sessions    \* session -> its branch name and how far RepoHealerEngine.run has come

ssVars == <<heads, sessions>>

\* one inline analysis of a pull request, with what the forge and the Store saw of it
VARIABLES
    job         \* runInlineAnalysis: its position, its createCommitStatus calls, the rows created

jbVars == <<job>>

\* the components modelled after the rate limiter
newerVars == <<tkVars, glVars, scVars, clVars, sbVars, dtVars, apVars, eqVars, ssVars, jbVars>>

\* the components modelled after the commits
laterVars == <<fixVars, astVars, ckVars, apiVars, rlVars, newerVars>>

\* the components modelled further down
restVars == <<cmVars, laterVars>>

vars == <<healVars, whVars, instVars, brVars, restVars>>

notHeal == <<whVars, instVars, brVars, restVars>>
notWebhook == <<healVars, instVars, brVars, restVars>>
notInstall == <<healVars, whVars, brVars, restVars>>
notBranch == <<healVars, whVars, instVars, restVars>>
notCommit == <<healVars, whVars, instVars, call, laterVars>>
notFix == <<healVars, whVars, instVars, brVars, cmVars, astVars, ckVars, apiVars, rlVars, newerVars>>
notAst == <<healVars, whVars, instVars, brVars, cmVars, fixVars, ckVars, apiVars, rlVars, newerVars>>
notChecks == <<healVars, whVars, instVars, brVars, cmVars, fixVars, astVars, apiVars, rlVars, newerVars>>
notApi == <<healVars, whVars, instVars, brVars, cmVars, fixVars, astVars, ckVars, rlVars, newerVars>>
notRateLimit == <<healVars, whVars, instVars, brVars, cmVars, fixVars, astVars, ckVars, apiVars, newerVars>>

CIStatuses == {"PENDING", "PASSED", "FAILED", "NO_CI", "SKIPPED"}

(***************************************************************************)
(* Helpers shared by both orchestrations.                                  *)
(***************************************************************************)
Issue(f, src) == [file |-> f, source |-> src]

\* the keys of issuesByFile, in insertion order
RECURSIVE FilesOf(_)
FilesOf(iss) ==
    IF iss = <<>> THEN <<>>
    ELSE LET rest == FilesOf(SubSeq(iss, 1, Len(iss) - 1))
             f == iss[Len(iss)].file
         IN  IF \E i \in 1..Len(rest) : rest[i] = f THEN rest ELSE Append(rest, f)

\* the generateFix outcomes of the issues of file f, in issue order
OutcomesOf(iss, outs, f) ==
    LET tagged == [i \in 1..Len(iss) |-> [file |-> iss[i].file, out |-> outs[i]]]
        mine == SelectSeq(tagged, LAMBDA t : t.file = f)
    IN  [i \in 1..Len(mine) |-> mine[i].out]

StatusOf(out) ==
    CASE out = "fixed" -> "applied"
      [] out = "nofix" -> "unfixable"
      [] out = "throw" -> "error"

Fix(f, status, pending, pass) ==
    [file |-> f, status |-> status, pending |-> pending, pass |-> pass]

\* index of the last fix generateFixes stashes _pendingCommit on (0: none)
LastApplied(outs) ==
    IF \E i \in 1..Len(outs) : outs[i] = "fixed"
    THEN CHOOSE i \in 1..Len(outs) :
            outs[i] = "fixed" /\ \A j \in (i + 1)..Len(outs) : outs[j] # "fixed"
    ELSE 0

CountStatus(fixes, s) == Cardinality({i \in 1..Len(fixes) : fixes[i].status = s})

NumFixed(outs) == Cardinality({i \in 1..Len(outs) : outs[i] = "fixed"})

\* `currentContent !== content`: one applied fix always changes the file, several
\* may bring it back to the content it had
ChangedOK(outs, ch) ==
    IF NumFixed(outs) = 0 THEN ~ch ELSE IF NumFixed(outs) = 1 THEN ch ELSE TRUE

\* the fix entries one file gets in one pass
FixesForFile(f, found, outs, ch, pass, stash) ==
    [i \in 1..Len(outs) |->
        IF ~found THEN Fix(f, "skipped", FALSE, pass)
        ELSE Fix(f, StatusOf(outs[i]), stash /\ ch /\ i = LastApplied(outs), pass)]

RECURSIVE FixesForFiles(_, _, _, _, _, _)
FixesForFiles(fs, iss, found, outs, ch, pass) ==
    IF fs = <<>> THEN <<>>
    ELSE LET f == Head(fs)
         IN  FixesForFile(f, found[f], OutcomesOf(iss, outs, f), ch[f], pass, TRUE)
             \o FixesForFiles(Tail(fs), iss, found, outs, ch, pass)

\* failure logs turned into issues with source = ci, in both orchestrations
CIIssues(logs) ==
    LET withFile == SelectSeq(logs, LAMBDA f : f # NoFile)
    IN  [i \in 1..Len(withFile) |-> Issue(withFile[i], "ci")]

\* what ciAgent.waitForChecks can return: PASSED without logs, or FAILED with a
\* failure log that names a file (an annotation) or names none (check output, timeout)
CIResults ==
    {[status |-> "PASSED", failureLogs |-> <<>>]}
    \cup {[status |-> "FAILED", failureLogs |-> <<f>>] : f \in {"a.js", NoFile}}

\* `new Date()` read from a clock that never runs backwards: the number of agent and
\* forge calls the session has made so far
Now == gen_visits + mon_visits + commit_calls + createPR_calls + updatePR_calls

\* mutant: iterations are counted from zero
TimelineRow_fromZero(it, st) == [iteration |-> it - 1, status |-> st, timestamp |-> Now]

TimelineRow(it, st) == [iteration |-> it, status |-> st, timestamp |-> Now]

\* mutant: the row of a missing CI configuration is recorded twice
NoCITimeline_twice(it) == <<TimelineRow(it, "NO_CI"), TimelineRow(it, "NO_CI")>>

\* the rows pushed to the timeline when hasCIConfigured is false
NoCITimeline(it) == <<TimelineRow(it, "NO_CI")>>

\* the state a PR body is written with (createPR, _updatePRBody)
Body(st, rc) == [ciStatus |-> st, retryCount |-> rc]
NoPRBody == Body("none", 0)

\* mutant: the retry counter advances by two
NewRetry_skip(rc) == rc + 2

\* `state.retry_count + 1` in monitorCI, `this.retryCount++` in _ciRetryLoop
NewRetry(rc) == rc + 1

(***************************************************************************)
(* Each component before anything has happened to it.                      *)
(***************************************************************************)
\* request.headers.get(...) of a header the request does not carry
NoHeader == [given |-> FALSE, text |-> <<>>]
Header(t) == [given |-> TRUE, text |-> t]
NoEvent == "null"

\* no webhook request received yet, no Analysis record in the Store
NoPayload == [action |-> "none", shape |-> "none"]

WebhookStart ==
    /\ deliveries = 0
    /\ request = [event |-> NoEvent, body |-> <<>>, signature |-> NoHeader,
                  payload |-> NoPayload]
    /\ response = 0
    /\ handled = "none"
    /\ analyses = <<>>

WebhookIdle ==
    /\ NODE_ENV = "production"
    /\ GITHUB_WEBHOOK_SECRET = <<"k">>
    /\ WebhookStart

\* a handleInstallation call that has not been entered
NotDelivered ==
    [pc |-> "idle", user |-> 0, next |-> 1, project |-> 0, rule |-> 0, conflicts |-> 0]

InstallIdle ==
    /\ payload = [action |-> "deleted", installation |-> 1, sender |-> 1, repositories |-> <<>>]
    /\ known = {}
    /\ users = {}
    /\ projects = <<>>
    /\ handler = [h \in {1, 2} |-> NotDelivered]

\* getRef answers 404 for a branch that does not exist
NoRef == 0
NoCall == [pc |-> "idle", branchName |-> "main", baseBranch |-> "main", baseSha |-> NoRef,
           existed |-> FALSE, result |-> NoRef]

BranchIdle ==
    /\ refs = [b \in {"main", "ai-fix"} |-> NoRef]
    /\ call = NoCall

\* no commit call yet; the forge holds the commits the branches start at
NoCommit == [pc |-> "idle", method |-> "commitFile", branchName |-> "main", files |-> 0,
             tree |-> 0, latestCommitSha |-> NoRef, newCommit |-> NoRef, result |-> NoRef]

CommitIdle ==
    /\ objects = 2
    /\ commitCall = NoCommit

\* no generateFix call yet
NoFixCall == [pc |-> "idle", apiKey |-> FALSE, originalLength |-> 0, text |-> <<>>,
              result |-> [by |-> "none", fixedCode |-> <<>>]]

FixIdle == fixCall = NoFixCall

\* no analyze call yet
NoAstCall == [pc |-> "idle", engine |-> "worker", supported |-> FALSE, lines |-> <<>>,
              matches |-> {}, violations |-> {}]

AstIdle == astCall = NoAstCall

\* what waitForChecks has returned before it returns
NoVerdict == [status |-> "none", by |-> "none", failureLogs |-> <<>>]

\* no waitForChecks call yet
NoChecksCall == [pc |-> "idle", elapsed |-> 0, onlyErrors |-> TRUE, polled |-> "none",
                 checks |-> <<>>, statuses |-> <<>>, result |-> NoVerdict]

ChecksIdle == ckCall = NoChecksCall

\* no request body
NoBody == [repo_url |-> <<>>, team_name |-> FALSE, leader_name |-> FALSE]

\* no stream
NoStream == [state |-> "none", events |-> <<>>]

\* no engine
NoEngine == [pc |-> "idle", cloner |-> FALSE, cloneDir |-> FALSE,
             final_ci_status |-> "PENDING", retryCount |-> 0, inRetry |-> FALSE,
             applied |-> FALSE, outcome |-> "none", mutatedAfterClose |-> FALSE]

ApiIdle ==
    /\ hreq = NoBody
    /\ hres = 0
    /\ stream = NoStream
    /\ eng = NoEngine

\* the limiter before any request
RateLimitIdle ==
    /\ options = [maxRequests |-> 60, windowMs |-> 60000]
    /\ clock = 0
    /\ rateLimitStore = <<>>
    /\ allowed = <<>>
    /\ limited = [status |-> 0, retryAfter |-> 0]
    /\ served = 0

NoToken == 0
NoTokenCall == [pc |-> "idle", installationId |-> 0, via |-> "direct",
                fresh |-> FALSE, result |-> "none"]

\* no caller has asked for a client
TokenIdle ==
    /\ env = [app |-> FALSE, pat |-> FALSE]
    /\ tkClock = 0
    /\ tokens = <<>>
    /\ tkCalls = <<>>
    /\ octokit = "null"

NoGrammarCall == [pc |-> "idle", op |-> "none", languageName |-> "none"]

\* a GrammarLoader as constructed
GrammarStart ==
    /\ initialized = FALSE
    /\ initPromise = "null"
    /\ languages = {}
    /\ inits = 0

GrammarIdle ==
    /\ GrammarStart
    /\ glCalls = <<>>
    /\ loaded = <<>>

NoScan == [pc |-> "idle", engine |-> "ASTEngine", rules |-> <<>>, parsed |-> FALSE,
           next |-> 1, violations |-> <<>>, treeDeletes |-> 0, compiled |-> 0,
           released |-> 0]

ScanIdle == scan = NoScan

NoViolation == [category |-> "", message |-> {}, rule |-> {}]
NoClassification == [pc |-> "idle", violation |-> NoViolation, result |-> "null"]

ClassifyIdle == cls = NoClassification

NoName == <<>>
NoRun == [pc |-> "idle", containerName |-> NoName, container |-> "none", timer |-> "none",
          deadline |-> 0, timedOut |-> FALSE, exitCode |-> 0]

SandboxIdle ==
    /\ sbClock = 0
    /\ runs = <<>>

NoResult == [language |-> "none", astSupported |-> FALSE, error |-> FALSE, violations |-> {}]
NoDetection == [pc |-> "idle", filename |-> "", optionsLanguage |-> "none",
                constructs |-> {}, result |-> NoResult]

DetectIdle == det = NoDetection

NoPass == [impl |-> "none", pc |-> "idle", passIssues |-> <<>>, fixes |-> <<>>,
           queue |-> <<>>, changed |-> {}, committed |-> {}, failed |-> {}]

ApplyIdle == ap = NoPass

NoScript == [fix |-> "nofix", commitOk |-> FALSE, hasCi |-> FALSE, ci |-> <<>>]
NoSession == [node |-> "idle", issues |-> <<>>, fixes |-> <<>>, retry_count |-> 0,
              ci_status |-> "PENDING", ci_timeline |-> <<>>, calls |-> <<>>]

EquivIdle == script = NoScript /\ gs = NoSession /\ os = NoSession

NoHeads == <<>>
NoSessions == <<>>

SessionsIdle == heads = NoHeads /\ sessions = NoSessions

NoJob == [pc |-> "idle"]

InlineIdle == job = NoJob

NewerIdle ==
    /\ TokenIdle
    /\ GrammarIdle
    /\ ScanIdle
    /\ ClassifyIdle
    /\ SandboxIdle
    /\ DetectIdle
    /\ ApplyIdle
    /\ EquivIdle
    /\ SessionsIdle
    /\ InlineIdle

LaterIdle ==
    /\ FixIdle
    /\ AstIdle
    /\ ChecksIdle
    /\ ApiIdle
    /\ RateLimitIdle
    /\ NewerIdle

RestIdle ==
    /\ CommitIdle
    /\ LaterIdle

\* a heal session that has not started: the initial HealingState
HealStart ==
    /\ node = "START"
    /\ issues = allIssues
    /\ fixes_applied = <<>>
    /\ retry_count = 0
    /\ ci_status = "PENDING"
    /\ ci_timeline = <<>>
    /\ pr_number = 0
    /\ failureLogs = <<>>
    /\ todo = <<>>
    /\ pendingFile = NoFile
    /\ applyIssues = <<>>
    /\ appliedFixes = 0
    /\ caller = "run"
    /\ results = [total_failures_detected |-> 0, total_fixes_applied |-> 0,
                  final_ci_status |-> "PENDING", retry_count |-> 0, pr_url |-> 0]
    /\ createPR_calls = 0
    /\ commit_calls = 0
    /\ updatePR_calls = 0
    /\ gen_visits = 0
    /\ mon_visits = 0
    /\ wait_calls = 0
    /\ pr_body = NoPRBody

HealIdle ==
    /\ impl = "orch"
    /\ allIssues = <<>>
    /\ HealStart

(***************************************************************************)
(* The LangGraph healing graph (buildHealingGraph and its node functions). *)
(***************************************************************************)
HealInit ==
    /\ impl \in {"graph", "orch"}
    /\ allIssues \in {[i \in 1..Len(fs) |-> Issue(fs[i], "ast")] : fs \in SeqsUpTo(Files, MaxIssues)}
    /\ HealStart
    /\ WebhookIdle
    /\ InstallIdle
    /\ BranchIdle
    /\ RestIdle

\* the locals of _applyFixes and of the engine, which the graph does not have
engineLocals == <<todo, pendingFile, applyIssues, appliedFixes, caller, results>>

orchLocals == <<failureLogs, engineLocals>>

\* mutant: one retry too many (<= instead of <)
retryDecision_offByOne ==
    IF ci_status \in {"PASSED", "NO_CI", "SKIPPED"} THEN "update_pr"
    ELSE IF ci_status = "FAILED" /\ retry_count <= MAX_RETRIES THEN "generate_fixes"
    ELSE "update_pr"

\* the conditional edge out of monitor_ci
retryDecision ==
    IF ci_status \in {"PASSED", "NO_CI", "SKIPPED"} THEN "update_pr"
    ELSE IF ci_status = "FAILED" /\ retry_count < MAX_RETRIES THEN "generate_fixes"
    ELSE "update_pr"

\* mutant: push_branch wired back to generate_fixes
GraphEdge_miswired(n) ==
    CASE n = "START" -> "ANALYZE"
      [] n = "ANALYZE" -> "GENERATE_FIXES"
      [] n = "GENERATE_FIXES" -> "APPLY_COMMIT"
      [] n = "APPLY_COMMIT" -> "OPEN_PR"
      [] n = "OPEN_PR" -> "GENERATE_FIXES"
      [] OTHER -> "END"

\* the addEdge calls of buildHealingGraph
GraphEdge(n) ==
    CASE n = "START" -> "ANALYZE"
      [] n = "ANALYZE" -> "GENERATE_FIXES"
      [] n = "GENERATE_FIXES" -> "APPLY_COMMIT"
      [] n = "APPLY_COMMIT" -> "OPEN_PR"
      [] n = "OPEN_PR" -> "MONITOR_CI"
      [] OTHER -> "END"

\* the node the compiled graph runs next
GraphSuccessor ==
    IF node = "MONITOR_CI"
    THEN (IF retryDecision = "generate_fixes" THEN "GENERATE_FIXES"
          ELSE "UPDATE_PR_AND_END")
    ELSE GraphEdge(node)

analyzeRepo ==
    /\ impl = "graph"
    /\ GraphSuccessor = "ANALYZE"
    /\ node' = "ANALYZE"
    /\ ci_status' = IF Len(issues) = 0 THEN "PASSED" ELSE ci_status
    /\ UNCHANGED <<notHeal, impl, allIssues, issues, fixes_applied, retry_count, ci_timeline,
                   pr_number, orchLocals, createPR_calls, commit_calls, updatePR_calls,
                   gen_visits, mon_visits,
                   wait_calls, pr_body>>

\* `state.retry_count > 0 ? state.issues.filter(...) : state.issues`
issuesToFix ==
    IF retry_count > 0 THEN SelectSeq(issues, LAMBDA i : i.source = "ci") ELSE issues

\* the keys of issuesByFile
IssueFiles == {issuesToFix[i].file : i \in 1..Len(issuesToFix)}

generateFixes ==
    /\ impl = "graph"
    /\ GraphSuccessor = "GENERATE_FIXES"
    /\ \E found \in [IssueFiles -> BOOLEAN], ch \in [IssueFiles -> BOOLEAN],
          outs \in [1..Len(issuesToFix) -> FixOutcomes] :
          /\ \A f \in IssueFiles : ChangedOK(OutcomesOf(issuesToFix, outs, f), ch[f])
          /\ fixes_applied' = fixes_applied \o
                FixesForFiles(FilesOf(issuesToFix), issuesToFix, found, outs, ch,
                              retry_count)
    /\ node' = "GENERATE_FIXES"
    /\ gen_visits' = gen_visits + 1
    /\ failureLogs' = <<>>    \* ciResult was a local of monitorCI
    /\ UNCHANGED <<notHeal, impl, allIssues, issues, retry_count, ci_status, ci_timeline,
                   pr_number, engineLocals, createPR_calls, commit_calls, updatePR_calls,
                   mon_visits,
                   wait_calls, pr_body>>

applyCommit ==
    /\ impl = "graph"
    /\ GraphSuccessor = "APPLY_COMMIT"
    /\ LET pendingCommits == SelectSeq(fixes_applied, LAMBDA f : f.pending)
       IN  commit_calls' = commit_calls + Len(pendingCommits)
    /\ node' = "APPLY_COMMIT"
    /\ UNCHANGED <<notHeal, impl, allIssues, issues, fixes_applied, retry_count, ci_status,
                   ci_timeline, pr_number, orchLocals, createPR_calls, updatePR_calls,
                   gen_visits, mon_visits,
                   wait_calls, pr_body>>

pushBranch ==
    /\ impl = "graph"
    /\ GraphSuccessor = "OPEN_PR"
    /\ node' = "OPEN_PR"
    /\ IF CountStatus(fixes_applied, "applied") = 0
       THEN /\ ci_status' = "SKIPPED"
            /\ UNCHANGED <<pr_number, createPR_calls, pr_body>>
       ELSE /\ createPR_calls' = createPR_calls + 1
            /\ pr_number' = createPR_calls + 1
            /\ pr_body' = Body("PENDING", retry_count)
            /\ UNCHANGED ci_status
    /\ UNCHANGED <<notHeal, impl, allIssues, issues, fixes_applied, retry_count, ci_timeline,
                   orchLocals, commit_calls, updatePR_calls, gen_visits, mon_visits,
                   wait_calls>>

monitorCI ==
    /\ impl = "graph"
    /\ GraphSuccessor = "MONITOR_CI"
    /\ node' = "MONITOR_CI"
    /\ mon_visits' = mon_visits + 1
    /\ \E hasCi \in BOOLEAN :
          IF ~hasCi
          THEN /\ ci_status' = "NO_CI"
               /\ ci_timeline' = ci_timeline \o NoCITimeline(retry_count)
               /\ failureLogs' = <<>>
               /\ UNCHANGED <<retry_count, issues, wait_calls>>
          ELSE \E ciResult \in CIResults :
               LET newRetry == NewRetry(retry_count)
                   ciIssues == CIIssues(ciResult.failureLogs)
               IN  /\ retry_count' = newRetry
                   /\ wait_calls' = wait_calls + 1
                   /\ failureLogs' = ciResult.failureLogs
                   /\ ci_status' = ciResult.status
                   /\ ci_timeline' = Append(ci_timeline, TimelineRow(newRetry, ciResult.status))
                   /\ issues' = IF ciResult.status = "FAILED" /\ Len(ciResult.failureLogs) > 0
                                   /\ Len(ciIssues) > 0
                                THEN ciIssues ELSE issues
    /\ UNCHANGED <<notHeal, impl, allIssues, fixes_applied, pr_number, engineLocals,
                   createPR_calls, commit_calls, updatePR_calls, gen_visits, pr_body>>

updatePR ==
    /\ impl = "graph"
    /\ GraphSuccessor = "UPDATE_PR_AND_END"
    /\ node' = "UPDATE_PR_AND_END"
    /\ updatePR_calls' = IF pr_number # 0 THEN updatePR_calls + 1 ELSE updatePR_calls
    /\ pr_body' = IF pr_number # 0 THEN Body(ci_status, retry_count) ELSE pr_body
    /\ failureLogs' = <<>>    \* ciResult was a local of monitorCI
    /\ UNCHANGED <<notHeal, impl, allIssues, issues, fixes_applied, retry_count, ci_status,
                   ci_timeline, pr_number, engineLocals, createPR_calls, commit_calls,
                   gen_visits, mon_visits, wait_calls>>

GraphNext ==
    \/ analyzeRepo
    \/ generateFixes
    \/ applyCommit
    \/ pushBranch
    \/ monitorCI
    \/ updatePR


(***************************************************************************)
(* RepoHealerEngine.run and the imperative Orchestrator it drives.         *)
(***************************************************************************)
counters == <<createPR_calls, commit_calls, updatePR_calls, gen_visits, mon_visits,
              wait_calls, pr_body>>

\* STEPS 1-3 of RepoHealerEngine.run: the merged issue list is recorded
Engine_analyze ==
    /\ impl = "orch"
    /\ node = "START"
    /\ node' = "ANALYZE"
    /\ results' = [results EXCEPT !.total_failures_detected = Len(allIssues)]
    /\ UNCHANGED <<notHeal, impl, allIssues, issues, fixes_applied, retry_count, ci_status,
                   ci_timeline, pr_number, failureLogs, todo, pendingFile, applyIssues,
                   appliedFixes, caller, counters>>

\* `if (allIssues.length === 0)`: the engine returns before any branch or orchestrator
Engine_clean ==
    /\ impl = "orch"
    /\ node = "ANALYZE"
    /\ Len(allIssues) = 0
    /\ node' = "UPDATE_PR_AND_END"
    /\ results' = [results EXCEPT !.final_ci_status = "PASSED"]
    /\ UNCHANGED <<notHeal, impl, allIssues, issues, fixes_applied, retry_count, ci_status,
                   ci_timeline, pr_number, failureLogs, todo, pendingFile, applyIssues,
                   appliedFixes, caller, counters>>

\* Orchestrator.run, PHASE 1: _applyFixes(issues) is entered
Orch_run ==
    /\ impl = "orch"
    /\ node = "ANALYZE"
    /\ Len(allIssues) > 0
    /\ node' = "GENERATE_FIXES"
    /\ gen_visits' = gen_visits + 1
    /\ applyIssues' = issues
    /\ todo' = FilesOf(issues)
    /\ appliedFixes' = 0
    /\ caller' = "run"
    /\ UNCHANGED <<notHeal, impl, allIssues, issues, fixes_applied, retry_count, ci_status,
                   ci_timeline, pr_number, failureLogs, pendingFile, results,
                   createPR_calls, commit_calls, updatePR_calls, mon_visits,
                   wait_calls, pr_body>>

\* _applyFixes: one file of issuesByFile is read and its issues are fixed one by one
applyFixes_file ==
    /\ impl = "orch"
    /\ node = "GENERATE_FIXES"
    /\ todo # <<>>
    /\ pendingFile = NoFile
    /\ LET f == Head(todo)
           n == Len(SelectSeq(applyIssues, LAMBDA i : i.file = f))
       IN  \E found \in BOOLEAN, ch \in BOOLEAN, outs \in [1..n -> FixOutcomes] :
              /\ ChangedOK(outs, ch)
              /\ fixes_applied' = fixes_applied \o
                    FixesForFile(f, found, outs, ch, retry_count, FALSE)
              /\ appliedFixes' = appliedFixes + (IF found THEN NumFixed(outs) ELSE 0)
              /\ IF found /\ ch
                 THEN pendingFile' = f /\ todo' = todo
                 ELSE pendingFile' = NoFile /\ todo' = Tail(todo)
    /\ UNCHANGED <<notHeal, impl, node, allIssues, issues, retry_count, ci_status, ci_timeline,
                   pr_number, failureLogs, applyIssues, caller, results, counters>>

\* the catch block of _applyFixes after a failed commitFile
MarkCommitFailed(fixes, f) ==
    [i \in 1..Len(fixes) |->
        IF fixes[i].file = f /\ fixes[i].status = "applied"
        THEN [fixes[i] EXCEPT !.status = "commit_failed"]
        ELSE fixes[i]]

\* _applyFixes: the modified file is committed; a failed commit is caught
applyFixes_commit ==
    /\ impl = "orch"
    /\ node = "GENERATE_FIXES"
    /\ pendingFile # NoFile
    /\ commit_calls' = commit_calls + 1
    /\ \E ok \in BOOLEAN :
          fixes_applied' = IF ok THEN fixes_applied
                           ELSE MarkCommitFailed(fixes_applied, pendingFile)
    /\ pendingFile' = NoFile
    /\ todo' = Tail(todo)
    /\ UNCHANGED <<notHeal, impl, node, allIssues, issues, retry_count, ci_status, ci_timeline,
                   pr_number, failureLogs, applyIssues, appliedFixes, caller, results,
                   createPR_calls, updatePR_calls, gen_visits, mon_visits,
                   wait_calls, pr_body>>

applyFixesReturned == node = "GENERATE_FIXES" /\ todo = <<>> /\ pendingFile = NoFile

\* what Orchestrator.run hands back and RepoHealerEngine.run copies into its results
EngineResults(status) ==
    [results EXCEPT !.total_fixes_applied = CountStatus(fixes_applied, "applied"),
                    !.final_ci_status = status,
                    !.retry_count = retry_count,
                    !.pr_url = pr_number]

\* Orchestrator.run: `if (fixResults.length === 0)` returns SKIPPED
Orch_skipped ==
    /\ impl = "orch"
    /\ applyFixesReturned
    /\ caller = "run"
    /\ appliedFixes = 0
    /\ node' = "UPDATE_PR_AND_END"
    /\ ci_status' = "SKIPPED"
    /\ results' = [results EXCEPT !.total_fixes_applied = 0, !.final_ci_status = "SKIPPED",
                                  !.retry_count = 0, !.pr_url = 0]
    /\ UNCHANGED <<notHeal, impl, allIssues, issues, fixes_applied, retry_count, ci_timeline,
                   pr_number, failureLogs, todo, pendingFile, applyIssues, appliedFixes,
                   caller, counters>>

\* Orchestrator.run, PHASE 2
Orch_createPR ==
    /\ impl = "orch"
    /\ applyFixesReturned
    /\ caller = "run"
    /\ appliedFixes # 0
    /\ node' = "OPEN_PR"
    /\ createPR_calls' = createPR_calls + 1
    /\ pr_number' = createPR_calls + 1
    /\ pr_body' = Body("PENDING", retry_count)
    /\ UNCHANGED <<notHeal, impl, allIssues, issues, fixes_applied, retry_count, ci_status,
                   ci_timeline, failureLogs, todo, pendingFile, applyIssues, appliedFixes,
                   caller, results, commit_calls, updatePR_calls, gen_visits, mon_visits,
                   wait_calls>>

\* _ciRetryLoop: hasCIConfigured on entry, then one turn of the while loop
\* (the turns after the first follow the RETRYING update of the PR body)
ciRetryLoop_check ==
    /\ impl = "orch"
    /\ \/ node = "OPEN_PR"
       \/ applyFixesReturned /\ caller = "loop"
       \/ node = "MONITOR_CI" /\ caller = "next"
    /\ caller' = "loop"
    /\ \E hasCi \in (IF node = "OPEN_PR" THEN BOOLEAN ELSE {TRUE}) :  \* asked on entry only
          IF node = "OPEN_PR" /\ ~hasCi
          THEN /\ node' = "MONITOR_CI"
               /\ mon_visits' = mon_visits + 1
               /\ ci_timeline' = ci_timeline \o NoCITimeline(0)
               /\ ci_status' = "NO_CI"
               /\ UNCHANGED <<retry_count, failureLogs, updatePR_calls, results, wait_calls,
                              pr_body>>
          ELSE IF ~(retry_count < MAX_RETRIES)
          THEN \* the while condition fails: "Max retries exhausted"
               /\ node' = "UPDATE_PR_AND_END"
               /\ updatePR_calls' = updatePR_calls + 2
               /\ pr_body' = Body("FAILED", retry_count)
               /\ ci_status' = "FAILED"
               /\ results' = EngineResults("FAILED")
               /\ UNCHANGED <<retry_count, failureLogs, ci_timeline, mon_visits, wait_calls>>
          ELSE /\ node' = "MONITOR_CI"
               /\ mon_visits' = mon_visits + 1
               /\ UNCHANGED results
               /\ retry_count' = NewRetry(retry_count)
               /\ updatePR_calls' = IF node = "OPEN_PR" THEN updatePR_calls
                                    ELSE updatePR_calls + 1
               /\ pr_body' = IF node = "OPEN_PR" THEN pr_body
                              ELSE Body("RETRYING", retry_count)
               /\ wait_calls' = wait_calls + 1
               /\ \E ciResult \in CIResults :
                     /\ ci_timeline' = Append(ci_timeline,
                                              TimelineRow(retry_count', ciResult.status))
                     /\ ci_status' = ciResult.status
                     /\ failureLogs' = ciResult.failureLogs
    /\ UNCHANGED <<notHeal, impl, allIssues, issues, fixes_applied, pr_number, todo, pendingFile,
                   applyIssues, appliedFixes, createPR_calls, commit_calls, gen_visits>>

\* mutant: the break test lets one more retry through (> instead of >=)
loopDecision_late ==
    IF ci_status \in {"PASSED", "NO_CI"} THEN "return"
    ELSE IF retry_count > MAX_RETRIES THEN "break"
    ELSE "retry"

\* what _ciRetryLoop does with a CI result
loopDecision ==
    IF ci_status \in {"PASSED", "NO_CI"} THEN "return"
    ELSE IF retry_count >= MAX_RETRIES THEN "break"
    ELSE "retry"

\* _ciRetryLoop: CI failed and retries remain: the failure logs become issues
ciRetryLoop_retry ==
    /\ impl = "orch"
    /\ node = "MONITOR_CI"
    /\ caller = "loop"
    /\ loopDecision = "retry"
    /\ IF Len(failureLogs) > 0
       THEN /\ node' = "GENERATE_FIXES"
            /\ gen_visits' = gen_visits + 1
            /\ applyIssues' = CIIssues(failureLogs)
            /\ todo' = FilesOf(CIIssues(failureLogs))
            /\ appliedFixes' = 0
            /\ UNCHANGED caller
       ELSE /\ caller' = "next"
            /\ UNCHANGED <<node, gen_visits, applyIssues, todo, appliedFixes>>
    /\ UNCHANGED <<notHeal, impl, allIssues, issues, fixes_applied, retry_count, ci_status,
                   ci_timeline, pr_number, failureLogs, pendingFile, results,
                   createPR_calls, commit_calls, updatePR_calls, mon_visits,
                   wait_calls, pr_body>>

\* _ciRetryLoop returns (NO_CI, PASSED, or FAILED after the last retry) and
\* Orchestrator.run returns to the engine
ciRetryLoop_return ==
    /\ impl = "orch"
    /\ node = "MONITOR_CI"
    /\ caller = "loop"
    /\ loopDecision # "retry"
    /\ node' = "UPDATE_PR_AND_END"
    /\ updatePR_calls' = IF ci_status = "NO_CI" THEN updatePR_calls ELSE updatePR_calls + 1
    /\ pr_body' = IF ci_status = "NO_CI" THEN pr_body ELSE Body(ci_status, retry_count)
    /\ results' = EngineResults(ci_status)
    /\ UNCHANGED <<notHeal, impl, allIssues, issues, fixes_applied, retry_count, ci_status,
                   ci_timeline, pr_number, failureLogs, todo, pendingFile, applyIssues,
                   appliedFixes, caller, createPR_calls, commit_calls, gen_visits,
                   mon_visits, wait_calls>>

OrchNext ==
    \/ Engine_analyze
    \/ Engine_clean
    \/ Orch_run
    \/ applyFixes_file
    \/ applyFixes_commit
    \/ Orch_skipped
    \/ Orch_createPR
    \/ ciRetryLoop_check
    \/ ciRetryLoop_retry
    \/ ciRetryLoop_return

HealNext == GraphNext \/ OrchNext

SpecHeal == HealInit /\ [][HealNext]_vars

\* every step of a session is taken eventually: the engine awaits each call in turn
\* (a step of HealNext changes healVars and nothing else)
FairHeal == SpecHeal /\ WF_healVars(HealNext)

Done == node = "UPDATE_PR_AND_END"

(***************************************************************************)
(* Claims about the healing state machine.                                 *)
(***************************************************************************)

\* C1: every HealSession terminates, visiting GENERATE_FIXES at most MAX_RETRIES + 1
\* times and MONITOR_CI at most MAX_RETRIES times, whatever CI results come back.
C1_Termination ==
    /\ <>Done
    /\ [](gen_visits <= MAX_RETRIES + 1 /\ mon_visits <= MAX_RETRIES)

\* a session that ended after CI failed on every one of the MAX_RETRIES checks
C1_Witness == Done /\ mon_visits = MAX_RETRIES /\ gen_visits = MAX_RETRIES /\ ci_status = "FAILED"

\* C2: in every reachable state of a HealSession, retry_count <= MAX_RETRIES.
C2_RetryBound == retry_count <= MAX_RETRIES

\* CI has just been checked for the MAX_RETRIES-th time
C2_Witness == node = "MONITOR_CI" /\ retry_count = MAX_RETRIES

\* C3: a PR is created in a session iff at least one recorded fix has status applied.
C3_PRIffApplied ==
    Done => ((createPR_calls > 0) <=> (CountStatus(fixes_applied, "applied") > 0))

DecidedNode ==
    IF ci_status \in {"PASSED", "NO_CI", "SKIPPED"} THEN "UPDATE_PR_AND_END"
    ELSE IF ci_status = "FAILED" /\ retry_count < 5 THEN "GENERATE_FIXES"
    ELSE "UPDATE_PR_AND_END"

\* C5: after MONITOR_CI the next node is UPDATE_PR_AND_END if ci_status is PASSED,
\* NO_CI or SKIPPED, GENERATE_FIXES if it is FAILED with retry_count < 5, and
\* UPDATE_PR_AND_END otherwise.
C5_RetryDecision ==
    [][node = "MONITOR_CI" /\ node' # node => node' = DecidedNode]_vars

\* the session ended because CI still failed when the retries were used up
C5_Witness == Done /\ ci_status = "FAILED" /\ retry_count = MAX_RETRIES /\ mon_visits > 0

\* C12 as stated: for every index i of ci_timeline (counted from 1, as iterations
\* are), ci_timeline[i].iteration = i, and timestamps are non-decreasing.
C12_IterationIsIndex ==
    \A i \in 1..Len(ci_timeline) :
       /\ ci_timeline[i].iteration = i
       /\ i > 1 => ci_timeline[i - 1].timestamp <= ci_timeline[i].timestamp

\* C12, amended: every row of a CI check has iteration = its index (from 1); a NO_CI
\* row is the last row and its iteration is the number of CI checks before it (its
\* index minus one); timestamps are non-decreasing along the timeline.
C12_MonotoneTimeline ==
    \A i \in 1..Len(ci_timeline) :
       /\ ci_timeline[i].status # "NO_CI" => ci_timeline[i].iteration = i
       /\ ci_timeline[i].status = "NO_CI" =>
             (i = Len(ci_timeline) /\ ci_timeline[i].iteration = i - 1)
       /\ i > 1 => ci_timeline[i - 1].timestamp <= ci_timeline[i].timestamp

\* a timeline with a failed CI check followed by a NO_CI row
C12_Witness ==
    /\ Len(ci_timeline) = 2
    /\ ci_timeline[1].status = "FAILED"
    /\ ci_timeline[2].status = "NO_CI"

\* the final CI status a session reports
FinalStatus == IF impl = "graph" THEN ci_status ELSE results.final_ci_status

\* C6: with an empty precomputed issue list the session goes from ANALYZE straight to
\* UPDATE_PR_AND_END: no fix pass, no commit, no PR, no CI monitoring, and it ends
\* with no fix applied and final_ci_status = PASSED.
C6_CleanRepoShortCircuit ==
    allIssues = <<>> =>
        /\ gen_visits = 0 /\ mon_visits = 0 /\ commit_calls = 0 /\ createPR_calls = 0
        /\ Done => (FinalStatus = "PASSED" /\ CountStatus(fixes_applied, "applied") = 0)

\* hasCIConfigured has just answered false at MONITOR_CI
NoCIStep == node' = "MONITOR_CI" /\ mon_visits' = mon_visits + 1 /\ ci_status' = "NO_CI"

\* C31: when hasCIConfigured is false at MONITOR_CI, ci_status becomes NO_CI,
\* exactly one NO_CI row is appended to ci_timeline, retry_count stays,
\* waitForChecks is not called, and the next node is UPDATE_PR_AND_END.
C31_NoCI ==
    /\ [][NoCIStep =>
            /\ Len(ci_timeline') = Len(ci_timeline) + 1
            /\ SubSeq(ci_timeline', 1, Len(ci_timeline)) = ci_timeline
            /\ ci_timeline'[Len(ci_timeline')].status = "NO_CI"
            /\ retry_count' = retry_count
            /\ wait_calls' = wait_calls]_vars
    /\ [][node = "MONITOR_CI" /\ ci_status = "NO_CI" /\ node' # node =>
            node' = "UPDATE_PR_AND_END"]_vars
    /\ [](wait_calls = Cardinality({i \in 1..Len(ci_timeline) : ci_timeline[i].status # "NO_CI"}))

\* a graph session found no CI configuration when it came back to MONITOR_CI
\* after a failed check, and ended
C31_Witness ==
    /\ Done /\ ci_status = "NO_CI" /\ wait_calls = 1 /\ retry_count = 1
    /\ Len(ci_timeline) = 2

\* the issues the fix pass that comes next, or is under way, works on
IssuesInPass == IF impl = "graph" THEN issuesToFix ELSE applyIssues

\* a CI check has failed and a retry pass follows (graph), or the retry pass is
\* entered with the failure logs of the check (Orchestrator)
RetryStep ==
    \/ impl = "graph" /\ node' = "MONITOR_CI" /\ retryDecision' = "generate_fixes"
    \/ impl = "orch" /\ node = "MONITOR_CI" /\ node' = "GENERATE_FIXES"

\* C33: on a retry pass (a visit of GENERATE_FIXES after the first) the issues
\* fixed are exactly the issues with source = ci that the MONITOR_CI visit just
\* before it made from the failure logs of its CI check; issues of the initial
\* analysis are not among them.
C33_RetryFixesLastCIIssues ==
    [][RetryStep => IssuesInPass' = CIIssues(failureLogs')]_vars

\* the pending commits made by the GENERATE_FIXES visit of the pass under way
PendingOfPass == {i \in 1..Len(fixes_applied) :
                    fixes_applied[i].pending /\ fixes_applied[i].pass = retry_count}

\* C35: a file's pending content is committed at most once: a visit of
\* APPLY_COMMIT makes one commitFile call for each pending content of the
\* GENERATE_FIXES visit just before it, and none for pending content of an
\* earlier pass.
C35_PendingCommittedOnce ==
    [][(impl = "graph" /\ node' = "APPLY_COMMIT" /\ node # node')
          => commit_calls' = commit_calls + Cardinality(PendingOfPass)]_vars

\* C32: whenever a HealSession ends with a PR open (CI PASSED, NO_CI, or FAILED
\* after the last retry), the PR body was last written by _updatePRBody with the
\* final ci_status and retry_count.
C32_FinalBodyWritten ==
    (Done /\ pr_number # 0) =>
        /\ updatePR_calls > 0
        /\ pr_body = Body(ci_status, retry_count)


\* C29: prCreator.createPR is invoked at most once in a HealSession: the passes
\* through OPEN_PR after a CI retry open no further PR.
C29_OnePRPerSession == createPR_calls <= 1

\* OPEN_PR is left with no fix of status applied
SkippedPush == node = "OPEN_PR" /\ CountStatus(fixes_applied, "applied") = 0

\* C30: when OPEN_PR is reached with no fix applied, ci_status is SKIPPED, the
\* next node is UPDATE_PR_AND_END (MONITOR_CI is not entered) and the session
\* ends with ci_status = SKIPPED.
C30_SkippedWithoutMonitor ==
    /\ [](SkippedPush => ci_status = "SKIPPED")
    /\ [][SkippedPush /\ node' # node =>
             node' = "UPDATE_PR_AND_END" /\ ci_status' = "SKIPPED"]_vars

(***************************************************************************)
(* Webhook intake: POST, verifySignature, handlePullRequest and the inline *)
(* analysis it starts without awaiting.                                    *)
(***************************************************************************)
\* hex digits of the modelled HMAC digest
DigestLen == 1
\* longest request body
MaxBodyLen == 1
\* webhook requests received
MaxDeliveries == 2
\* violations one inline analysis finds
MaxViolations == 1

BodyChars == {"{", "x"}
Bodies == SeqsUpTo(BodyChars, MaxBodyLen)
HexChars == {"0", "1"}
\* the x-hub-signature-256 header: absent, or hex text with or without the sha256=
\* prefix, shorter than a digest, as long, or longer
Signatures ==
    {NoHeader}
    \cup {Header(h) : h \in SeqsUpTo(HexChars, DigestLen + 1)}
    \cup {Header(<<"sha256=">> \o h) : h \in SeqsUpTo(HexChars, DigestLen + 1)}
Events == {NoEvent, "pull_request", "installation", "ping", "push"}
\* what JSON.parse(body) holds for a pull_request event: the action, and whether
\* the pull_request and repository objects are there ("full") or not ("bare")
PullRequestActions == {"opened", "synchronize", "reopened", "closed"}
Payloads ==
    {[action |-> a, shape |-> "full"] : a \in PullRequestActions}
    \cup {[action |-> "opened", shape |-> "bare"]}
Requests ==
    [event : {"pull_request"}, body : Bodies, signature : Signatures, payload : Payloads]
    \cup [event : Events \ {"pull_request"}, body : Bodies, signature : Signatures,
          payload : {NoPayload}]

CharCode(c) == IF c = "{" THEN 1 ELSE 2

RECURSIVE SumCodes(_)
SumCodes(B) == IF B = <<>> THEN 0 ELSE CharCode(Head(B)) + SumCodes(Tail(B))

HexDigit(n) == IF n % 2 = 0 THEN "0" ELSE "1"

\* crypto.createHmac('sha256', key).update(B).digest('hex'): a hex text of fixed
\* length that depends on the key and on the body
HmacHex(key, B) == [i \in 1..DigestLen |-> HexDigit(Len(key) + i * SumCodes(B))]

Digest(key, B) == <<"sha256=">> \o HmacHex(key, B)

\* crypto.timingSafeEqual throws a RangeError for inputs of different byte length
timingSafeEqual(a, b) ==
    IF Len(a) # Len(b) THEN "throw" ELSE IF a = b THEN "true" ELSE "false"

verifySignature(body, signature) ==
    IF ~signature.given \/ signature.text = <<>> \/ GITHUB_WEBHOOK_SECRET = <<>>
    THEN (IF NODE_ENV = "development" THEN "true" ELSE "false")
    ELSE timingSafeEqual(signature.text, Digest(GITHUB_WEBHOOK_SECRET, body))

\* JSON.parse(body) succeeds
JSONParses(B) == B # <<>> /\ Head(B) = "{"

WebhookInit ==
    /\ NODE_ENV \in {"production", "development"}
    /\ GITHUB_WEBHOOK_SECRET \in {<<>>, <<"k">>}
    /\ WebhookStart
    /\ HealIdle
    /\ InstallIdle
    /\ BranchIdle
    /\ RestIdle

\* prisma.analysis.create with status PENDING, and the job runInlineAnalysis starts on
NewAnalysis ==
    [status |-> "PENDING", pc |-> "getOctokit", found |-> 0, left |-> 0,
     writes |-> 0, rejected |-> FALSE]

Respond(code, branch) == response' = code /\ handled' = branch

\* mutant: every action is analysed
Tracked_any(action) == TRUE

\* ['opened', 'synchronize', 'reopened'].includes(action)
Tracked(action) == action \in {"opened", "synchronize", "reopened"}

\* handlePullRequest(payload); an exception before its try block (the log line reads
\* repo.full_name and pr.number) leaves POST with 500
handlePullRequest(parsed) ==
    IF parsed.shape = "bare"
    THEN Respond(500, "pull_request") /\ UNCHANGED analyses
    ELSE IF ~Tracked(parsed.action)
    THEN Respond(200, "pull_request") /\ UNCHANGED analyses
    ELSE \E outcome \in {"error", "no_project", "no_rules", "analyzing"} :
            /\ Respond(200, "pull_request")
            /\ analyses' = IF outcome = "analyzing"
                           THEN Append(analyses, NewAnalysis)
                           ELSE analyses

\* the switch of POST on the event header, reached by a verified, parsed request
RouteEvent(event, parsed) ==
    CASE event = "pull_request" -> handlePullRequest(parsed)
      [] event = "installation" ->
           /\ \E ok \in BOOLEAN : Respond(IF ok THEN 200 ELSE 500, "installation")
           /\ UNCHANGED analyses
      [] event = "ping" -> Respond(200, "ping") /\ UNCHANGED analyses
      [] OTHER -> Respond(200, "default") /\ UNCHANGED analyses

\* POST(request) for a request out of the given ones
Receive(requests) ==
    \E r \in requests :
       /\ deliveries < MaxDeliveries
       /\ deliveries' = deliveries + 1
       /\ request' = r
       /\ IF r.event = NoEvent THEN Respond(400, "none") /\ UNCHANGED analyses
          ELSE IF r.body = <<>> THEN Respond(400, "none") /\ UNCHANGED analyses
          ELSE IF verifySignature(r.body, r.signature) = "throw"
          THEN Respond(500, "none") /\ UNCHANGED analyses
          ELSE IF verifySignature(r.body, r.signature) = "false"
          THEN Respond(401, "none") /\ UNCHANGED analyses
          ELSE IF ~JSONParses(r.body) THEN Respond(400, "none") /\ UNCHANGED analyses
          ELSE RouteEvent(r.event, r.payload)
       /\ UNCHANGED <<NODE_ENV, GITHUB_WEBHOOK_SECRET, notWebhook>>

POST == Receive(Requests)

\* the forge's payloads carry the pull_request and repository objects; one
\* tracked and one untracked action
ForgePayloads ==
    {[action |-> "opened", shape |-> "full"], [action |-> "closed", shape |-> "full"]}

\* pull_request deliveries signed with the shared secret
Signed(payloads) ==
    {[event |-> "pull_request", body |-> body,
      signature |-> Header(Digest(GITHUB_WEBHOOK_SECRET, body)),
      payload |-> parsed] : body \in Bodies, parsed \in payloads}

\* the pull_request deliveries of the forge
SignedPullRequests == Signed(ForgePayloads)

POST_pullRequest == Receive(SignedPullRequests)

\* a signed pull_request delivery with any of the payloads
POST_anyPullRequest == Receive(Signed(Payloads))

\* ---- runInlineAnalysis(jobData), one action per awaited call ----
At(i, p) == analyses[i].pc = p
Goto(i, p) == analyses' = [analyses EXCEPT ![i].pc = p]
Jobs == 1..Len(analyses)
inlineFrame == <<NODE_ENV, GITHUB_WEBHOOK_SECRET, deliveries, request, response, handled,
                 notWebhook>>

\* mutant: listFiles is called outside the try block
OnThrow_escapes(step) == IF step = "listFiles" THEN "thrown" ELSE "catch"

\* where an exception of a call that no inner try wraps leads: the outer catch
OnThrow(step) == "catch"

runInlineAnalysis_getOctokit ==
    \E i \in Jobs, ok \in BOOLEAN :
       /\ At(i, "getOctokit")
       /\ Goto(i, IF ok THEN "pendingStatus" ELSE OnThrow("getOctokit"))
       /\ UNCHANGED inlineFrame

\* createCommitStatus(pending), in its own try/catch
runInlineAnalysis_pendingStatus ==
    \E i \in Jobs :
       /\ At(i, "pendingStatus")
       /\ Goto(i, "listFiles")
       /\ UNCHANGED inlineFrame

runInlineAnalysis_listFiles ==
    \E i \in Jobs, ok \in BOOLEAN :
       /\ At(i, "listFiles")
       /\ Goto(i, IF ok THEN "findRules" ELSE OnThrow("listFiles"))
       /\ UNCHANGED inlineFrame

runInlineAnalysis_findRules ==
    \E i \in Jobs, ok \in BOOLEAN :
       /\ At(i, "findRules")
       /\ Goto(i, IF ok THEN "scan" ELSE OnThrow("findRules"))
       /\ UNCHANGED inlineFrame

\* the loop over the changed files (a failed getContent skips the file) fills allViolations
runInlineAnalysis_scan ==
    \E i \in Jobs, n \in 0..MaxViolations :
       /\ At(i, "scan")
       /\ analyses' = [analyses EXCEPT ![i].pc = "commitStatus", ![i].found = n]
       /\ UNCHANGED inlineFrame

\* createCommitStatus(failure | success), in its own try/catch
runInlineAnalysis_commitStatus ==
    \E i \in Jobs :
       /\ At(i, "commitStatus")
       /\ analyses' = [analyses EXCEPT
                          ![i].pc = IF analyses[i].found > 0 THEN "createViolation" ELSE "post",
                          ![i].left = analyses[i].found]
       /\ UNCHANGED inlineFrame

\* prisma.violation.create for the next violation
runInlineAnalysis_createViolation ==
    \E i \in Jobs, ok \in BOOLEAN :
       /\ At(i, "createViolation")
       /\ analyses' = IF ok
                      THEN [analyses EXCEPT
                               ![i].left = @ - 1,
                               ![i].pc = IF analyses[i].left = 1 THEN "post" ELSE @]
                      ELSE [analyses EXCEPT ![i].pc = OnThrow("createViolation")]
       /\ UNCHANGED inlineFrame

\* the review or the comment on the PR, every call in a try/catch
runInlineAnalysis_post ==
    \E i \in Jobs :
       /\ At(i, "post")
       /\ Goto(i, "update")
       /\ UNCHANGED inlineFrame

\* prisma.analysis.update({status: 'SUCCESS'})
runInlineAnalysis_update ==
    \E i \in Jobs, ok \in BOOLEAN :
       /\ At(i, "update")
       /\ analyses' = IF ok
                      THEN [analyses EXCEPT ![i].status = "SUCCESS", ![i].writes = @ + 1,
                                            ![i].pc = "slack"]
                      ELSE [analyses EXCEPT ![i].pc = OnThrow("update")]
       /\ UNCHANGED inlineFrame

\* the Slack notification, in its own try/catch; then the function returns
runInlineAnalysis_slack ==
    \E i \in Jobs :
       /\ At(i, "slack")
       /\ Goto(i, "done")
       /\ UNCHANGED inlineFrame

\* the outer catch: prisma.analysis.update({status: 'FAILURE'}), then the error is
\* rethrown; when this update throws too, its error is the one that propagates
runInlineAnalysis_catch ==
    \E i \in Jobs, ok \in BOOLEAN :
       /\ At(i, "catch")
       /\ analyses' = IF ok
                      THEN [analyses EXCEPT ![i].status = "FAILURE", ![i].writes = @ + 1,
                                            ![i].pc = "thrown"]
                      ELSE [analyses EXCEPT ![i].rejected = TRUE, ![i].pc = "thrown"]
       /\ UNCHANGED inlineFrame

\* runInlineAnalysis has returned or thrown
Ended(i) == analyses[i].pc \in {"done", "thrown"}

WebhookNext ==
    \/ POST
    \/ runInlineAnalysis_getOctokit
    \/ runInlineAnalysis_pendingStatus
    \/ runInlineAnalysis_listFiles
    \/ runInlineAnalysis_findRules
    \/ runInlineAnalysis_scan
    \/ runInlineAnalysis_commitStatus
    \/ runInlineAnalysis_createViolation
    \/ runInlineAnalysis_post
    \/ runInlineAnalysis_update
    \/ runInlineAnalysis_slack
    \/ runInlineAnalysis_catch

SpecWebhook == WebhookInit /\ [][WebhookNext]_vars

\* the Analysis lifecycle under the forge's own pull_request deliveries
AnalysisNext ==
    \/ POST_pullRequest
    \/ runInlineAnalysis_getOctokit
    \/ runInlineAnalysis_pendingStatus
    \/ runInlineAnalysis_listFiles
    \/ runInlineAnalysis_findRules
    \/ runInlineAnalysis_scan
    \/ runInlineAnalysis_commitStatus
    \/ runInlineAnalysis_createViolation
    \/ runInlineAnalysis_post
    \/ runInlineAnalysis_update
    \/ runInlineAnalysis_slack
    \/ runInlineAnalysis_catch

SpecAnalysis == WebhookInit /\ [][AnalysisNext]_vars

\* the route alone under signed pull_request deliveries, one after the other
SpecPullRequest == WebhookInit /\ [][POST_anyPullRequest]_vars

\* C23: a pull_request event whose action is none of opened, synchronize and
\* reopened is answered with 200, and handling it adds no Analysis record and
\* starts no inline analysis (the jobs are the entries of analyses).
C23_UntrackedIgnored ==
    [][(/\ deliveries' = deliveries + 1
        /\ handled' = "pull_request"
        /\ request'.payload.shape = "full"
        /\ request'.payload.action \notin {"opened", "synchronize", "reopened"})
          => (response' = 200 /\ analyses' = analyses)]_vars

\* a closed pull request was delivered to handlePullRequest after an analysis of
\* an earlier delivery had been recorded
C23_Witness ==
    /\ handled = "pull_request"
    /\ request.payload = [action |-> "closed", shape |-> "full"]
    /\ response = 200
    /\ Len(analyses) = 1

(***************************************************************************)
(* Claims about webhook intake and the Analysis lifecycle.                 *)
(***************************************************************************)

\* C7: with NODE_ENV other than development, a request (event header present, body
\* not empty) whose signature header differs from 'sha256=' + HMAC(secret, body),
\* whatever its length or format, is answered 401 and reaches no event handler.
C7_BadSignature401 ==
    (/\ NODE_ENV # "development"
     /\ response # 0
     /\ request.event # NoEvent
     /\ request.body # <<>>
     /\ request.signature # Header(Digest(GITHUB_WEBHOOK_SECRET, request.body)))
    => (response = 401 /\ handled = "none")

\* C8 as stated: every Analysis record is created PENDING and changes status exactly
\* once, to SUCCESS or FAILURE; once its inline analysis has ended it is not PENDING.
C8_ExactlyOnce ==
    \A i \in Jobs :
       /\ analyses[i].writes <= 1
       /\ (analyses[i].writes = 0) <=> (analyses[i].status = "PENDING")
       /\ Ended(i) => analyses[i].status \in {"SUCCESS", "FAILURE"}

\* C8, amended: every Analysis record is created PENDING and changes status at most
\* once, to SUCCESS or FAILURE, never again afterwards; once its inline analysis has
\* ended it is PENDING only if the Store rejected the FAILURE update of the catch block.
C8_AtMostOnce ==
    \A i \in Jobs :
       /\ analyses[i].writes <= 1
       /\ (analyses[i].writes = 0) <=> (analyses[i].status = "PENDING")
       /\ (Ended(i) /\ analyses[i].status = "PENDING") => analyses[i].rejected
       /\ analyses[i].pc = "done" => analyses[i].status = "SUCCESS"

\* one analysis returned after SUCCESS, another ran into an exception and is FAILURE
C8_Witness ==
    \E i, j \in Jobs :
       /\ analyses[i].pc = "done" /\ analyses[i].status = "SUCCESS"
       /\ analyses[j].pc = "thrown" /\ analyses[j].status = "FAILURE"

(***************************************************************************)
(* handleInstallation: two deliveries of one installation payload, each    *)
(* handled by its own call, interleaved at the awaited Store calls.        *)
(***************************************************************************)
\* repositories an installation payload lists
MaxRepos == 2
\* DEFAULT_SECURITY_RULES.length
NumDefaultRules == 8

RepoIds == 1..MaxRepos
Handlers == {1, 2}

\* lists of distinct repositories
RepoLists == {rs \in SeqsUpTo(RepoIds, MaxRepos) : \A i, j \in 1..Len(rs) : rs[i] = rs[j] => i = j}

Project(repoId, installationId) ==
    [githubRepoId |-> repoId, installationId |-> installationId, rules |-> 0]

RECURSIVE ProjectsOf(_, _)
ProjectsOf(ids, n) ==
    IF n = 0 THEN <<>>
    ELSE IF n \in ids THEN Append(ProjectsOf(ids, n - 1), Project(n, 0))
    ELSE ProjectsOf(ids, n - 1)

InstallInit ==
    /\ payload \in [action : {"created", "added", "removed", "deleted"}, installation : {1},
                    sender : {1}, repositories : RepoLists]
    /\ users \in SUBSET {1}
    /\ known \in SUBSET RepoIds
    /\ projects = ProjectsOf(known, MaxRepos)
    /\ handler = [h \in Handlers |-> NotDelivered]
    /\ HealIdle
    /\ WebhookIdle
    /\ BranchIdle
    /\ RestIdle

\* payload.repositories for created, payload.repositories_added for added
repos == payload.repositories

\* prisma.project.findUnique({ where: { githubRepoId } }): index of the record, 0 for null
FindProject(ps, repoId) ==
    IF \E i \in 1..Len(ps) : ps[i].githubRepoId = repoId
    THEN CHOOSE i \in 1..Len(ps) : ps[i].githubRepoId = repoId
    ELSE 0

\* mutant: githubRepoId is not a unique column
UniqueViolation_off(ps, repoId) == FALSE

\* githubRepoId is a unique column (findUnique takes it as the key): a second create
\* with the same value is rejected
UniqueViolation(ps, repoId) == \E i \in 1..Len(ps) : ps[i].githubRepoId = repoId

\* the for loop over the repositories: the next iteration, or the end of the handler
LoopPc(next) == IF next > Len(repos) THEN "done" ELSE "findProject"

installFrame == <<payload, known, notInstall>>

\* handleInstallation(payload) is entered; removed and deleted only log
handleInstallation_enter(h) ==
    /\ handler[h].pc = "idle"
    /\ handler' = [handler EXCEPT ![h].pc = IF payload.action \in {"created", "added"}
                                            THEN "findUser" ELSE "done"]
    /\ UNCHANGED <<users, projects, installFrame>>

\* prisma.user.findUnique({ where: { githubId } })
handleInstallation_findUser(h) ==
    /\ handler[h].pc = "findUser"
    /\ handler' = IF payload.sender \in users
                  THEN [handler EXCEPT ![h].user = payload.sender, ![h].pc = LoopPc(1)]
                  ELSE [handler EXCEPT ![h].pc = "createUser"]
    /\ UNCHANGED <<users, projects, installFrame>>

\* prisma.user.create, outside any try: a rejected create ends the handler with the error
handleInstallation_createUser(h) ==
    /\ handler[h].pc = "createUser"
    /\ IF payload.sender \in users
       THEN /\ handler' = [handler EXCEPT ![h].pc = "threw"]
            /\ UNCHANGED users
       ELSE /\ users' = users \cup {payload.sender}
            /\ handler' = [handler EXCEPT ![h].user = payload.sender, ![h].pc = LoopPc(1)]
    /\ UNCHANGED <<projects, installFrame>>

\* prisma.project.findUnique for the repository of this iteration
handleInstallation_findProject(h) ==
    /\ handler[h].pc = "findProject"
    /\ LET existing == FindProject(projects, repos[handler[h].next])
       IN  handler' =
             IF existing = 0
             THEN [handler EXCEPT ![h].pc = "createProject"]
             ELSE IF payload.action = "created"
             THEN [handler EXCEPT ![h].project = existing, ![h].pc = "updateProject"]
             ELSE [handler EXCEPT ![h].next = @ + 1, ![h].pc = LoopPc(handler[h].next + 1)]
    /\ UNCHANGED <<users, projects, installFrame>>

\* created only: prisma.project.update of the installation id, then `continue`
handleInstallation_updateProject(h) ==
    /\ handler[h].pc = "updateProject"
    /\ projects' = [projects EXCEPT ![handler[h].project].installationId = payload.installation]
    /\ handler' = [handler EXCEPT ![h].next = @ + 1, ![h].pc = LoopPc(handler[h].next + 1)]
    /\ UNCHANGED <<users, installFrame>>

\* prisma.project.create; a rejected create is caught per repository (repoError)
handleInstallation_createProject(h) ==
    /\ handler[h].pc = "createProject"
    /\ LET repoId == repos[handler[h].next]
       IN  IF UniqueViolation(projects, repoId)
           THEN /\ handler' = [handler EXCEPT ![h].next = @ + 1, ![h].conflicts = @ + 1,
                                              ![h].pc = LoopPc(handler[h].next + 1)]
                /\ UNCHANGED projects
           ELSE /\ projects' = Append(projects, Project(repoId, payload.installation))
                /\ handler' = [handler EXCEPT ![h].project = Len(projects) + 1,
                                              ![h].rule = 0, ![h].pc = "createRule"]
    /\ UNCHANGED <<users, installFrame>>

\* prisma.rule.create for the next of the DEFAULT_SECURITY_RULES
handleInstallation_createRule(h) ==
    /\ handler[h].pc = "createRule"
    /\ projects' = [projects EXCEPT ![handler[h].project].rules = @ + 1]
    /\ handler' = IF handler[h].rule + 1 = NumDefaultRules
                  THEN [handler EXCEPT ![h].rule = @ + 1, ![h].next = @ + 1,
                                       ![h].pc = LoopPc(handler[h].next + 1)]
                  ELSE [handler EXCEPT ![h].rule = @ + 1]
    /\ UNCHANGED <<users, installFrame>>

InstallNext ==
    \E h \in Handlers :
       \/ handleInstallation_enter(h)
       \/ handleInstallation_findUser(h)
       \/ handleInstallation_createUser(h)
       \/ handleInstallation_findProject(h)
       \/ handleInstallation_updateProject(h)
       \/ handleInstallation_createProject(h)
       \/ handleInstallation_createRule(h)

SpecInstall == InstallInit /\ [][InstallNext]_vars

(***************************************************************************)
(* Claims about installation handling.                                     *)
(***************************************************************************)

\* the Project count one handling of the payload leaves: a project for every
\* repository that had one before and for every repository the payload lists
CountAfterOnce == Cardinality(known \cup {repos[i] : i \in 1..Len(repos)})

\* C9: once a handling of an installation.created payload has completed, the number
\* of Project records is the one a single handling leaves, wherever a second handling
\* of the same payload stands: not started, in progress or ended.
C9_SameProjectCount ==
    (payload.action = "created" /\ \E h \in Handlers : handler[h].pc = "done")
    => Len(projects) = CountAfterOnce

\* both handlings ended, one of them after its create was rejected as a duplicate
C9_Witness ==
    /\ payload.action = "created"
    /\ \A h \in Handlers : handler[h].pc = "done"
    /\ \E h \in Handlers : handler[h].conflicts > 0
    /\ Len(projects) > Cardinality(known)

\* the repositories the payload lists
Listed == {repos[i] : i \in 1..Len(repos)}

\* C24: once an installation event (created or added) that lists repositories,
\* some of them with a Project already, has been handled, there is one new
\* Project for every listed repository that had none, the Project of every
\* listed repository carries the installation id of the event, and only the
\* new Projects have default rules.
C24_InstallationAdd ==
    (/\ payload.action \in {"created", "added"}
     /\ Listed \cap known # {}
     /\ \E h \in Handlers : handler[h].pc = "done"
     /\ \A h \in Handlers : handler[h].pc \in {"idle", "done"})
    => /\ Len(projects) = CountAfterOnce
       /\ \A r \in Listed :
             \E j \in 1..Len(projects) :
                /\ projects[j].githubRepoId = r
                /\ projects[j].installationId = payload.installation
       /\ \A j \in 1..Len(projects) :
             projects[j].rules > 0 => projects[j].githubRepoId \notin known

(***************************************************************************)
(* BranchManager.createBranch over the forge's refs.                       *)
(***************************************************************************)
Branches == {"main", "ai-fix"}
Shas == {1, 2}

BranchInit ==
    /\ refs \in [Branches -> Shas \cup {NoRef}]
    /\ call = NoCall
    /\ HealIdle
    /\ WebhookIdle
    /\ InstallIdle
    /\ RestIdle

\* mutant: the base sha is read from the branch to create
BaseRef_wrong(branchName, baseBranch) == branchName

\* the ref the first getRef reads: heads/${baseBranch}
BaseRef(branchName, baseBranch) == baseBranch

\* createBranch(branchName, baseBranch) is called
createBranch_call ==
    \E branchName \in Branches, baseBranch \in Branches :
       /\ call.pc \in {"idle", "returned", "threw"}
       /\ call' = [pc |-> "getBaseRef", branchName |-> branchName, baseBranch |-> baseBranch,
                   baseSha |-> NoRef, existed |-> refs[branchName] # NoRef,
                   result |-> NoRef]
       /\ UNCHANGED <<refs, notBranch>>

\* git.getRef(heads/base): a missing ref or a failed request throws out of createBranch
createBranch_getBaseRef ==
    /\ call.pc = "getBaseRef"
    /\ LET ref == BaseRef(call.branchName, call.baseBranch)
       IN  \E ok \in BOOLEAN :
              call' = IF ok /\ refs[ref] # NoRef
                      THEN [call EXCEPT !.baseSha = refs[ref], !.pc = "getRef"]
                      ELSE [call EXCEPT !.pc = "threw"]
    /\ UNCHANGED <<refs, notBranch>>

\* git.getRef(heads/name) inside the try: on a throw the catch goes on to createRef
createBranch_getRef ==
    /\ call.pc = "getRef"
    /\ \E ok \in BOOLEAN :
          call' = [call EXCEPT !.pc = IF ok /\ refs[call.branchName] # NoRef
                                      THEN "deleteRef" ELSE "createRef"]
    /\ UNCHANGED <<refs, notBranch>>

\* git.deleteRef(heads/name) inside the same try: a failure is swallowed
createBranch_deleteRef ==
    /\ call.pc = "deleteRef"
    /\ \E ok \in BOOLEAN :
          refs' = IF ok THEN [refs EXCEPT ![call.branchName] = NoRef] ELSE refs
    /\ call' = [call EXCEPT !.pc = "createRef"]
    /\ UNCHANGED notBranch

\* git.createRef(refs/heads/name, baseSha): the forge rejects a ref that exists
createBranch_createRef ==
    /\ call.pc = "createRef"
    /\ \E ok \in BOOLEAN :
          IF ok /\ refs[call.branchName] = NoRef
          THEN /\ refs' = [refs EXCEPT ![call.branchName] = call.baseSha]
               /\ call' = [call EXCEPT !.pc = "returned", !.result = call.baseSha]
          ELSE /\ call' = [call EXCEPT !.pc = "threw"]
               /\ UNCHANGED refs
    /\ UNCHANGED notBranch

BranchNext ==
    \/ createBranch_call
    \/ createBranch_getBaseRef
    \/ createBranch_getRef
    \/ createBranch_deleteRef
    \/ createBranch_createRef

SpecBranch == BranchInit /\ [][BranchNext]_vars

(***************************************************************************)
(* Claims about the BranchManager.                                         *)
(***************************************************************************)

\* C10: when createBranch(name, base) returns, heads/name points at the sha of
\* heads/base, which is the sha it returns, whether or not heads/name existed before.
C10_BranchAtBase ==
    call.pc = "returned" =>
        /\ refs[call.branchName] # NoRef
        /\ refs[call.branchName] = refs[call.baseBranch]
        /\ call.result = refs[call.baseBranch]

\* createBranch returned for a branch that existed before the call
C10_Witness ==
    call.pc = "returned" /\ call.existed /\ call.branchName # call.baseBranch

(***************************************************************************)
(* BranchManager.commitFile and commitMultipleFiles, with other writers    *)
(* pushing to the forge between the awaited calls.                         *)
(***************************************************************************)
\* commit objects the forge ends up holding
MaxObjects == 4

CommitInit ==
    /\ refs \in [Branches -> Shas \cup {NoRef}]
    /\ call = NoCall
    /\ CommitIdle
    /\ LaterIdle
    /\ HealIdle
    /\ WebhookIdle
    /\ InstallIdle

CommitMethods == {"commitFile", "commitMultipleFiles"}

\* mutant: commitMultipleFiles returns the sha it started from
CommitResult_stale(latestCommitSha, newCommitSha) == latestCommitSha

\* `return newCommit.sha`
CommitResult(latestCommitSha, newCommitSha) == newCommitSha

\* commitFile(branchName, ...) or commitMultipleFiles(branchName, files, ...) is called
commit_call ==
    \E method \in CommitMethods, branchName \in Branches, n \in 0..Cardinality(Files) :
       /\ commitCall.pc \in {"idle", "returned", "threw"}
       /\ commitCall' = [NoCommit EXCEPT
                            !.pc = IF method = "commitFile" THEN "getContent" ELSE "getRef",
                            !.method = method, !.branchName = branchName,
                            !.files = IF method = "commitFile" THEN 1 ELSE n]
       /\ UNCHANGED <<refs, objects, notCommit>>

\* somebody else pushes a commit to a branch of the repository
otherPush ==
    \E b \in Branches :
       /\ objects < MaxObjects
       /\ refs[b] # NoRef
       /\ objects' = objects + 1
       /\ refs' = [refs EXCEPT ![b] = objects + 1]
       /\ UNCHANGED <<commitCall, notCommit>>

\* commitFile: repos.getContent for the file's blob sha, in a try/catch
commitFile_getContent ==
    /\ commitCall.pc = "getContent"
    /\ commitCall' = [commitCall EXCEPT !.pc = "createOrUpdate"]
    /\ UNCHANGED <<refs, objects, notCommit>>

\* commitFile: repos.createOrUpdateFileContents commits on top of the branch head and
\* moves the branch; a missing branch, a stale blob sha or a failed request throws
commitFile_createOrUpdate ==
    /\ commitCall.pc = "createOrUpdate"
    /\ \E ok \in BOOLEAN :
          IF ok /\ refs[commitCall.branchName] # NoRef /\ objects < MaxObjects
          THEN /\ objects' = objects + 1
               /\ refs' = [refs EXCEPT ![commitCall.branchName] = objects + 1]
               /\ commitCall' = [commitCall EXCEPT !.pc = "returned", !.newCommit = objects + 1,
                                                   !.result = objects + 1]
          ELSE /\ commitCall' = [commitCall EXCEPT !.pc = "threw"]
               /\ UNCHANGED <<refs, objects>>
    /\ UNCHANGED notCommit

\* commitMultipleFiles: git.getRef(heads/branch)
commitMultipleFiles_getRef ==
    /\ commitCall.pc = "getRef"
    /\ \E ok \in BOOLEAN :
          commitCall' = IF ok /\ refs[commitCall.branchName] # NoRef
                        THEN [commitCall EXCEPT !.latestCommitSha = refs[commitCall.branchName],
                                                !.pc = "getCommit"]
                        ELSE [commitCall EXCEPT !.pc = "threw"]
    /\ UNCHANGED <<refs, objects, notCommit>>

\* commitMultipleFiles: git.getCommit for the base tree
commitMultipleFiles_getCommit ==
    /\ commitCall.pc = "getCommit"
    /\ \E ok \in BOOLEAN :
          commitCall' = [commitCall EXCEPT
                            !.pc = IF ~ok THEN "threw"
                                   ELSE IF commitCall.files > 0 THEN "createBlob"
                                   ELSE "createTree"]
    /\ UNCHANGED <<refs, objects, notCommit>>

\* commitMultipleFiles: git.createBlob for the next file
commitMultipleFiles_createBlob ==
    /\ commitCall.pc = "createBlob"
    /\ \E ok \in BOOLEAN :
          commitCall' = IF ~ok THEN [commitCall EXCEPT !.pc = "threw"]
                        ELSE [commitCall EXCEPT
                                 !.tree = @ + 1,
                                 !.pc = IF commitCall.tree + 1 = commitCall.files
                                        THEN "createTree" ELSE @]
    /\ UNCHANGED <<refs, objects, notCommit>>

\* commitMultipleFiles: git.createTree
commitMultipleFiles_createTree ==
    /\ commitCall.pc = "createTree"
    /\ \E ok \in BOOLEAN :
          commitCall' = [commitCall EXCEPT !.pc = IF ok THEN "createCommit" ELSE "threw"]
    /\ UNCHANGED <<refs, objects, notCommit>>

\* commitMultipleFiles: git.createCommit with parent latestCommitSha; no ref moves yet
commitMultipleFiles_createCommit ==
    /\ commitCall.pc = "createCommit"
    /\ \E ok \in BOOLEAN :
          IF ok /\ objects < MaxObjects
          THEN /\ objects' = objects + 1
               /\ commitCall' = [commitCall EXCEPT !.newCommit = objects + 1, !.pc = "updateRef"]
          ELSE /\ commitCall' = [commitCall EXCEPT !.pc = "threw"]
               /\ UNCHANGED objects
    /\ UNCHANGED <<refs, notCommit>>

\* commitMultipleFiles: git.updateRef without force: the forge accepts a fast-forward
\* only, that is, when the branch still points at the new commit's parent
commitMultipleFiles_updateRef ==
    /\ commitCall.pc = "updateRef"
    /\ \E ok \in BOOLEAN :
          IF ok /\ refs[commitCall.branchName] = commitCall.latestCommitSha
          THEN /\ refs' = [refs EXCEPT ![commitCall.branchName] = commitCall.newCommit]
               /\ commitCall' = [commitCall EXCEPT
                                    !.pc = "returned",
                                    !.result = CommitResult(commitCall.latestCommitSha,
                                                            commitCall.newCommit)]
          ELSE /\ commitCall' = [commitCall EXCEPT !.pc = "threw"]
               /\ UNCHANGED refs
    /\ UNCHANGED <<objects, notCommit>>

CommitNext ==
    \/ commit_call
    \/ otherPush
    \/ commitFile_getContent
    \/ commitFile_createOrUpdate
    \/ commitMultipleFiles_getRef
    \/ commitMultipleFiles_getCommit
    \/ commitMultipleFiles_createBlob
    \/ commitMultipleFiles_createTree
    \/ commitMultipleFiles_createCommit
    \/ commitMultipleFiles_updateRef

SpecCommit == CommitInit /\ [][CommitNext]_vars

\* C11: at the step in which commitFile or commitMultipleFiles returns sha s for a
\* branch, heads/<branch> points at s.
C11_HeadAtReturnedSha ==
    [][(commitCall'.pc = "returned" /\ commitCall.pc # "returned")
          => (commitCall'.result # NoRef
              /\ refs'[commitCall'.branchName] = commitCall'.result)]_vars

\* commitMultipleFiles has returned a new commit after somebody else had pushed
C11_Witness ==
    /\ commitCall.pc = "returned"
    /\ commitCall.method = "commitMultipleFiles"
    /\ commitCall.result = objects
    /\ commitCall.latestCommitSha > 2
\* ---------------------------------------------------------------------------
\* FixAgent: the LLM response parser (src/web/lib/repo-healer/agents/fix-agent.js)
\* ---------------------------------------------------------------------------

\* longest LLM response, in tokens
MaxTextLen == 5
\* longest original file, in characters
MaxOriginalLen == 4

\* An LLM response is a sequence of tokens: "S" is ===FIXED_CODE_START===, "E" is
\* ===FIXED_CODE_END===, "F" is a ``` fence, "n" a newline, "x" a letter.
Tokens == {"S", "E", "F", "n", "x"}

Texts == SeqsUpTo(Tokens, MaxTextLen)

\* the characters a token stands for
TokenLength(t) ==
    CASE t = "S" -> 22
      [] t = "E" -> 20
      [] t = "F" -> 3
      [] OTHER   -> 1

\* String.prototype.length
RECURSIVE Length(_)
Length(str) == IF str = <<>> THEN 0 ELSE TokenLength(Head(str)) + Length(Tail(str))

\* String.prototype.trim
RECURSIVE trim(_)
trim(str) ==
    IF str = <<>> THEN <<>>
    ELSE IF Head(str) = "n" THEN trim(Tail(str))
    ELSE IF str[Len(str)] = "n" THEN trim(SubSeq(str, 1, Len(str) - 1))
    ELSE str

\* the first position >= from at which token t stands (0: none)
IndexFrom(str, t, from) ==
    LET at == {k \in from..Len(str) : str[k] = t}
    IN  IF at = {} THEN 0 ELSE CHOOSE k \in at : \A m \in at : k <= m

NoMatch == [matched |-> FALSE, group |-> <<>>]

\* text.match(/===FIXED_CODE_START===\s*\n?([\s\S]*?)===FIXED_CODE_END===/)
codeMatch(text) ==
    LET start == IndexFrom(text, "S", 1)
        end   == IF start = 0 THEN 0 ELSE IndexFrom(text, "E", start + 1)
    IN  IF end = 0 THEN NoMatch
        ELSE [matched |-> TRUE, group |-> SubSeq(text, start + 1, end - 1)]

\* text.match(/```[\w]*\n([\s\S]*?)```/): the leftmost fence that is followed by
\* letters and a newline and has a fence after it
blockMatch(text) ==
    LET newlineOf(i) ==
            LET rest == {k \in (i + 1)..Len(text) : text[k] # "x"}
            IN  IF rest = {} THEN 0
                ELSE LET j == CHOOSE k \in rest : \A m \in rest : k <= m
                     IN  IF text[j] = "n" THEN j ELSE 0
        opens == {i \in 1..Len(text) :
                    /\ text[i] = "F"
                    /\ newlineOf(i) # 0
                    /\ IndexFrom(text, "F", newlineOf(i) + 1) # 0}
    IN  IF opens = {} THEN NoMatch
        ELSE LET i == CHOOSE k \in opens : \A m \in opens : k <= m
                 j == newlineOf(i)
             IN  [matched |-> TRUE,
                  group |-> SubSeq(text, j + 1, IndexFrom(text, "F", j + 1) - 1)]

\* the output of _ruleBasedFix, whatever it is
RuleBased == <<"ruleBasedFix">>

ruleBasedFix == [by |-> "rule", fixedCode |-> RuleBased]

AIFix(fixedCode) == [by |-> "ai", fixedCode |-> fixedCode]

\* fixedCode.length < originalContent.length * 0.3 || fixedCode.length > originalContent.length * 3
SuspiciousLength(fixedLength, originalLength) ==
    \/ 10 * fixedLength < 3 * originalLength
    \/ fixedLength > 3 * originalLength

parseAIResponse(text, originalLength) ==
    LET cm == codeMatch(text)
        bm == blockMatch(text)
    IN  IF ~cm.matched
        THEN IF bm.matched THEN AIFix(trim(bm.group)) ELSE ruleBasedFix
        ELSE LET fixedCode == trim(cm.group)
             IN  IF SuspiciousLength(Length(fixedCode), originalLength)
                 THEN ruleBasedFix
                 ELSE AIFix(fixedCode)

FixInit ==
    /\ fixCall \in {[NoFixCall EXCEPT !.pc = "called", !.apiKey = k, !.originalLength = n] :
                      k \in BOOLEAN, n \in 0..MaxOriginalLen}
    /\ HealIdle /\ WebhookIdle /\ InstallIdle /\ BranchIdle /\ CommitIdle /\ AstIdle /\ ChecksIdle /\ ApiIdle
    /\ RateLimitIdle /\ NewerIdle

\* no GEMINI_API_KEY
generateFix_noKey ==
    /\ fixCall.pc = "called"
    /\ ~fixCall.apiKey
    /\ fixCall' = [fixCall EXCEPT !.pc = "returned", !.result = ruleBasedFix]
    /\ UNCHANGED notFix

\* the request fails: !response.ok, or fetch / response.json() throws
generateFix_apiError ==
    /\ fixCall.pc = "called"
    /\ fixCall.apiKey
    /\ fixCall' = [fixCall EXCEPT !.pc = "returned", !.result = ruleBasedFix]
    /\ UNCHANGED notFix

\* the model answers with text
generateFix_response ==
    /\ fixCall.pc = "called"
    /\ fixCall.apiKey
    /\ \E text \in Texts :
          fixCall' = [fixCall EXCEPT !.pc = "returned", !.text = text,
                                     !.result = parseAIResponse(text, fixCall.originalLength)]
    /\ UNCHANGED notFix

FixNext ==
    \/ generateFix_noKey
    \/ generateFix_apiError
    \/ generateFix_response

SpecFix == FixInit /\ [][FixNext]_vars

\* C13: a replacement whose length is below 30% or above 300% of the original's is
\* never returned as the fix, whichever way the response was parsed.
C13_LengthSanity ==
    (fixCall.pc = "returned" /\ fixCall.result.by = "ai")
       => ~SuspiciousLength(Length(fixCall.result.fixedCode), fixCall.originalLength)
\* ---------------------------------------------------------------------------
\* AST engines: suppression (src/worker/src/analysis/ast/ast-engine.js and the web
\* wrapper of src/unnamed/part_006)
\* ---------------------------------------------------------------------------

\* most lines of a source file
MaxLines == 2

\* the suppression markers a line may contain
Markers == {"codeguard-ignore", "noqa", "eslint-disable", "@suppress"}

\* A line is the set of markers its text contains; a source file is its lines.
Sources == SeqsUpTo(SUBSET Markers, MaxLines)

\* the two implementations of analyze
Engines == {"worker", "web"}

\* the alternatives of suppressionPattern
suppressionPattern(engine) ==
    IF engine = "worker"
    THEN {"codeguard-ignore", "noqa", "eslint-disable", "@suppress"}
    ELSE {"codeguard-ignore", "noqa", "eslint-disable"}

\* suppressionPattern.test(line)
test(pattern, line) == pattern \cap line # {}

\* lines[lineIndex] || '' with lineIndex counted from 0
LineAt(lines, lineIndex) ==
    IF lineIndex + 1 \in 1..Len(lines) THEN lines[lineIndex + 1] ELSE {}

isSuppressed(engine, lines, lineIndex) ==
    LET line     == LineAt(lines, lineIndex)
        prevLine == IF lineIndex > 0 THEN LineAt(lines, lineIndex - 1) ELSE {}
    IN  test(suppressionPattern(engine), line) \/ test(suppressionPattern(engine), prevLine)

AstInit ==
    /\ astCall \in {[NoAstCall EXCEPT !.pc = "called", !.engine = e, !.supported = sup,
                                      !.lines = src, !.matches = rows] :
                      e \in Engines, sup \in BOOLEAN, src \in Sources,
                      rows \in SUBSET (0..(MaxLines - 1))}
    /\ \A row \in astCall.matches : row < Len(astCall.lines)
    /\ HealIdle /\ WebhookIdle /\ InstallIdle /\ BranchIdle /\ CommitIdle /\ FixIdle /\ ChecksIdle /\ ApiIdle
    /\ RateLimitIdle /\ NewerIdle

\* no grammar for the language
analyze_unsupported ==
    /\ astCall.pc = "called"
    /\ ~astCall.supported
    /\ astCall' = [astCall EXCEPT !.pc = "returned", !.violations = {}]
    /\ UNCHANGED notAst

\* grammarLoader.parse throws
analyze_parseError ==
    /\ astCall.pc = "called"
    /\ astCall.supported
    /\ astCall' = [astCall EXCEPT !.pc = "returned", !.violations = {}]
    /\ UNCHANGED notAst

\* the queries run: one violation per match that is not suppressed
analyze_queries ==
    /\ astCall.pc = "called"
    /\ astCall.supported
    /\ astCall' = [astCall EXCEPT
                     !.pc = "returned",
                     !.violations = {row \in astCall.matches :
                                       ~isSuppressed(astCall.engine, astCall.lines, row)}]
    /\ UNCHANGED notAst

AstNext ==
    \/ analyze_unsupported
    \/ analyze_parseError
    \/ analyze_queries

SpecAst == AstInit /\ [][AstNext]_vars

\* C14: no violation is emitted for a match whose start line or the line before it
\* contains codeguard-ignore, noqa, eslint-disable or @suppress, in every AST path.
C14_Suppression ==
    astCall.pc = "returned" =>
       \A row \in astCall.violations :
          /\ Markers \cap LineAt(astCall.lines, row) = {}
          /\ row > 0 => Markers \cap LineAt(astCall.lines, row - 1) = {}
\* ---------------------------------------------------------------------------
\* CIAgent.waitForChecks (src/unnamed/part_004)
\* ---------------------------------------------------------------------------

\* most check runs, and most statuses, a poll returns
MaxChecks == 1
\* most annotations of a failed check run
MaxAnnotations == 2
\* longest time the two forge requests of a poll take, in poll intervals
MaxLatency == 1

\* waitForChecks(commitSha, timeoutMs = 300000), in ms
timeoutMs == 300000
\* const pollInterval = 15000, in ms
pollInterval == 15000

\* a check run: its status and, once completed, its conclusion
CheckRuns ==
    [status : {"queued", "in_progress", "waiting"}, conclusion : {"null"}]
       \cup [status : {"completed"},
             conclusion : {"success", "failure", "timed_out", "cancelled"}]

\* the state of a commit status
StatusStates == {"pending", "success", "failure", "error"}

CheckLists == SeqsUpTo(CheckRuns, MaxChecks)
StatusLists == SeqsUpTo(StatusStates, MaxChecks)

Latencies == {l * pollInterval : l \in 0..MaxLatency}

\* the members of a list that satisfy a test
Filter(list, Keep(_)) == SelectSeq(list, Keep)

\* mutant: only the check-run list is looked at
NothingYet_checksOnly(checks, statuses) == Len(checks) = 0

\* checks.length === 0 && statuses.length === 0
NothingYet(checks, statuses) == Len(checks) = 0 /\ Len(statuses) = 0

pendingChecks(checks) == LET P(c) == c.status # "completed" IN Filter(checks, P)
pendingStatuses(statuses) == LET P(s) == s = "pending" IN Filter(statuses, P)

failedChecks(checks) ==
    LET P(c) == c.conclusion \in {"failure", "timed_out", "cancelled"} IN Filter(checks, P)
failedStatuses(statuses) ==
    LET P(s) == s \in {"failure", "error"} IN Filter(statuses, P)

\* the poll sleeps and the loop goes on
KeepsPolling(checks, statuses) ==
    \/ NothingYet(checks, statuses)
    \/ Len(pendingChecks(checks)) > 0
    \/ Len(pendingStatuses(statuses)) > 0

\* _extractFailureLogs: a failed check gives one log per annotation, or one log when it
\* has none or listAnnotations throws; a failed status gives one log
RECURSIVE CheckLogs(_, _)
CheckLogs(n, annotations) ==
    IF n = 0 THEN 0
    ELSE CheckLogs(n - 1, annotations) + (IF annotations[n] > 0 THEN annotations[n] ELSE 1)

extractFailureLogs(failed, failedSt, annotations) ==
    LET fromChecks == CheckLogs(Len(failed), annotations)
    IN  [k \in 1..(fromChecks + Len(failedSt)) |->
            [source |-> IF k <= fromChecks THEN "check" ELSE "status"]]

\* mutant: the timeout verdict carries no log
TimeoutVerdict_noLog ==
    [status |-> "FAILED", by |-> "timeout", failureLogs |-> <<>>]

\* the value returned after the loop
TimeoutVerdict ==
    [status |-> "FAILED", by |-> "timeout", failureLogs |-> <<[source |-> "timeout"]>>]

\* waitForChecks is called after hasCIConfigured returned true on the same agent, so
\* the forge client is there; startTime = Date.now()
ChecksInit ==
    /\ ckCall = [NoChecksCall EXCEPT !.pc = "loop"]
    /\ HealIdle /\ WebhookIdle /\ InstallIdle /\ BranchIdle /\ CommitIdle
    /\ FixIdle /\ AstIdle /\ ApiIdle /\ RateLimitIdle /\ NewerIdle

InLoop ==
    /\ ckCall.pc = "loop"
    /\ ckCall.elapsed < timeoutMs

\* a poll in which a forge request throws
waitForChecks_pollThrows ==
    /\ InLoop
    /\ \E latency \in Latencies :
          ckCall' = [ckCall EXCEPT !.pc = "polled", !.elapsed = @ + latency,
                                   !.polled = "error"]
    /\ UNCHANGED notChecks

\* a poll that gets the check runs and the combined status
waitForChecks_poll ==
    /\ InLoop
    /\ ckCall' \in [pc : {"polled"},
                     elapsed : {ckCall.elapsed + latency : latency \in Latencies},
                     onlyErrors : {FALSE},
                     polled : {"lists"},
                     checks : CheckLists,
                     statuses : StatusLists,
                     result : {NoVerdict}]
    /\ UNCHANGED notChecks

\* the catch block: sleep and poll again
waitForChecks_catch ==
    /\ ckCall.pc = "polled"
    /\ ckCall.polled = "error"
    /\ ckCall' = [ckCall EXCEPT !.pc = "loop", !.elapsed = @ + pollInterval,
                                !.polled = "none"]
    /\ UNCHANGED notChecks

\* nothing found yet, or something pending: sleep and poll again
waitForChecks_sleep ==
    /\ ckCall.pc = "polled"
    /\ ckCall.polled = "lists"
    /\ KeepsPolling(ckCall.checks, ckCall.statuses)
    /\ ckCall' = [ckCall EXCEPT !.pc = "loop", !.elapsed = @ + pollInterval,
                                !.polled = "none", !.checks = <<>>, !.statuses = <<>>]
    /\ UNCHANGED notChecks

\* everything complete: the verdict
waitForChecks_verdict ==
    /\ ckCall.pc = "polled"
    /\ ckCall.polled = "lists"
    /\ ~KeepsPolling(ckCall.checks, ckCall.statuses)
    /\ LET failed   == failedChecks(ckCall.checks)
           failedSt == failedStatuses(ckCall.statuses)
       IN  \E annotations \in [1..Len(failed) -> 0..MaxAnnotations] :
              ckCall' = [ckCall EXCEPT
                 !.pc = "returned",
                 !.result =
                    IF Len(failed) > 0 \/ Len(failedSt) > 0
                    THEN [status |-> "FAILED", by |-> "poll",
                          failureLogs |-> extractFailureLogs(failed, failedSt, annotations)]
                    ELSE [status |-> "PASSED", by |-> "poll", failureLogs |-> <<>>]]
    /\ UNCHANGED notChecks

\* Date.now() - startTime >= timeoutMs: the loop ends
waitForChecks_timeout ==
    /\ ckCall.pc = "loop"
    /\ ~(ckCall.elapsed < timeoutMs)
    /\ ckCall' = [ckCall EXCEPT !.pc = "returned", !.result = TimeoutVerdict]
    /\ UNCHANGED notChecks

ChecksNext ==
    \/ waitForChecks_pollThrows
    \/ waitForChecks_poll
    \/ waitForChecks_catch
    \/ waitForChecks_sleep
    \/ waitForChecks_verdict
    \/ waitForChecks_timeout

SpecChecks == ChecksInit /\ [][ChecksNext]_vars

\* every poll and every sleep ends, and the loop test is made
FairChecks == SpecChecks /\ WF_vars(ChecksNext)

\* C15 as stated: a verdict comes from a poll only when, in that poll, the check-run
\* list and the status list are both non-empty, no check run is queued or in_progress
\* and no status is pending.
C15_BothListsNonEmpty ==
    (ckCall.pc = "returned" /\ ckCall.result.by = "poll") =>
       /\ Len(ckCall.checks) > 0
       /\ Len(ckCall.statuses) > 0
       /\ \A i \in 1..Len(ckCall.checks) :
             ckCall.checks[i].status \notin {"queued", "in_progress"}
       /\ \A i \in 1..Len(ckCall.statuses) : ckCall.statuses[i] # "pending"

\* the lists of a poll from which a verdict is drawn
Terminal(checks, statuses) ==
    /\ Len(checks) > 0 \/ Len(statuses) > 0
    /\ \A i \in 1..Len(checks) : checks[i].status = "completed"
    /\ \A i \in 1..Len(statuses) : statuses[i] # "pending"

\* C15, amended: a verdict comes from a poll exactly when, in that poll, at least one
\* of the two lists is non-empty, every check run is completed and no status is
\* pending; after any other poll the call is still polling or ends by timeout.
C15_TerminalCondition ==
    /\ []((ckCall.pc = "returned" /\ ckCall.result.by = "poll")
            => Terminal(ckCall.checks, ckCall.statuses))
    /\ [][(ckCall.pc = "polled" /\ ckCall.polled = "lists") =>
            IF Terminal(ckCall.checks, ckCall.statuses)
            THEN ckCall'.pc = "returned" /\ ckCall'.result.by = "poll"
            ELSE ckCall'.pc = "loop"]_vars

\* a verdict drawn from check runs alone
C15_Witness ==
    /\ ckCall.pc = "returned"
    /\ ckCall.result.by = "poll"
    /\ Len(ckCall.checks) > 0
    /\ Len(ckCall.statuses) = 0

\* C16: when no poll gave a verdict within the timeout, waitForChecks returns FAILED
\* with exactly one failure log, marked timeout, also when every poll threw; every
\* call returns, and only a call that ran out of time returns by timeout.
C16_Timeout ==
    /\ []((ckCall.pc = "returned" /\ ckCall.result.by = "timeout") =>
            /\ ckCall.result.status = "FAILED"
            /\ ckCall.result.failureLogs = <<[source |-> "timeout"]>>
            /\ ckCall.elapsed >= timeoutMs)
    /\ []((ckCall.pc = "loop" => ckCall.elapsed < timeoutMs + (MaxLatency + 1) * pollInterval))
    /\ <>(ckCall.pc = "returned")

\* a call in which every poll threw, ended by the timeout
C16_Witness ==
    /\ ckCall.pc = "returned"
    /\ ckCall.result.by = "timeout"
    /\ ckCall.onlyErrors
\* ---------------------------------------------------------------------------
\* POST /api/repo-heal: validation, the SSE stream and RepoHealerEngine.run
\* (src/web/app/api/repo-heal/route.js, src/unnamed/part_005)
\* ---------------------------------------------------------------------------

\* maxRetries: 5, as RepoHealerEngine.run hands it to the Orchestrator
maxRetries == 5

\* repo_url values, as token sequences (<<>>: the field is missing); "seg" is a
\* non-empty path segment without "/" or "."
Urls ==
    { <<>>,
      <<"https://", "gitlab.com", "/", "seg", "/", "seg">>,
      <<"https://", "github.com">>,
      <<"https://", "github.com", "/", "seg">>,
      <<"https://", "github.com", "/", "seg", "/", "seg">>,
      <<"git@", "github.com", ":", "seg">>,
      <<"git@", "github.com", ":", "seg", "/", "seg">> }

Bodies_heal == [repo_url : Urls, team_name : BOOLEAN, leader_name : BOOLEAN]

\* repo_url.includes('github.com')
includesForge(url) == \E i \in 1..Len(url) : url[i] = "github.com"

\* url.match(/github\.com<sep>([^/]+)\/([^/.]+)/)
matchAfter(url, sep) ==
    \E i \in 1..Len(url) :
       /\ i + 4 <= Len(url)
       /\ url[i] = "github.com"
       /\ url[i + 1] = sep
       /\ url[i + 2] = "seg"
       /\ url[i + 3] = "/"
       /\ url[i + 4] = "seg"

\* _parseRepoUrl returns (TRUE) or throws (FALSE)
parseRepoUrl(url) == matchAfter(url, "/") \/ matchAfter(url, ":")

\* an event of the stream; `results` tells whether it carries the results
Event(stage, withResults) == [stage |-> stage, results |-> withResults]

\* mutant: every progress event carries the results
Progress_withResults(stage) == Event(stage, TRUE)

\* a progress event of the engine
Progress(stage) == Event(stage, FALSE)

Emitted(stages) == [i \in 1..Len(stages) |-> Progress(stages[i])]

\* controller.enqueue succeeds on an open stream and throws on any other
Open == stream.state = "open"

Enqueue(events) == [stream EXCEPT !.events = @ \o events]

\* a forge call that changes the repository is issued
IssueCall(e) == [e EXCEPT !.mutatedAfterClose = @ \/ stream.state = "cancelled"]

\* the catch and finally blocks of run: FAILED, _emit('error'), then cleanup
Thrown(e) ==
    /\ eng' = [e EXCEPT !.pc = "cleanup", !.final_ci_status = "FAILED", !.outcome = "threw"]
    /\ stream' = IF Open THEN Enqueue(Emitted(<<"error">>)) ELSE stream

\* the code goes on after an await, emitting `stages`; the first emit throws when the
\* stream is not open
Continue(stages, e) ==
    IF Open
    THEN eng' = e /\ stream' = Enqueue(Emitted(stages))
    ELSE Thrown(eng)

\* run sets the final status, emits `complete` and returns
Finish(stages, status) ==
    IF Open
    THEN /\ eng' = [eng EXCEPT !.pc = "cleanup", !.final_ci_status = status,
                               !.outcome = "returned"]
         /\ stream' = Enqueue(Emitted(stages) \o <<Event("complete", status # "PASSED"
                                                            \/ eng.applied)>>)
    ELSE Thrown(eng)

\* the top of the while loop of _ciRetryLoop
LoopTop(e) ==
    IF e.retryCount < maxRetries
    THEN Continue(<<"orchestrator">>,
                  [e EXCEPT !.pc = "waitForChecks", !.retryCount = @ + 1])
    ELSE Continue(<<"orchestrator">>, IssueCall([e EXCEPT !.pc = "updatePR_final"]))

\* what follows the return of _applyFixes; `swallowed` holds the emits made inside
\* its try blocks
AfterApplyFixes(e, swallowed) ==
    IF e.inRetry
    THEN /\ eng' = IssueCall([e EXCEPT !.pc = "updatePR_retry"])
         /\ stream' = IF Open THEN Enqueue(Emitted(swallowed)) ELSE stream
    ELSE IF ~Open THEN Thrown(e)
    ELSE IF e.applied
    THEN /\ eng' = IssueCall([e EXCEPT !.pc = "createPR"])
         /\ stream' = Enqueue(Emitted(swallowed \o <<"orchestrator", "orchestrator">>))
    ELSE /\ eng' = [e EXCEPT !.pc = "cleanup", !.final_ci_status = "SKIPPED",
                             !.outcome = "returned"]
         /\ stream' = Enqueue(Emitted(swallowed \o <<"orchestrator">>)
                                 \o <<Event("complete", TRUE)>>)

ApiInit ==
    /\ hreq \in Bodies_heal
    /\ hres = 0
    /\ stream = NoStream
    /\ eng = NoEngine
    /\ HealIdle /\ WebhookIdle /\ InstallIdle /\ BranchIdle /\ CommitIdle
    /\ FixIdle /\ AstIdle /\ ChecksIdle /\ RateLimitIdle /\ NewerIdle

\* a required field is missing
POST_missingField ==
    /\ hres = 0
    /\ hreq.repo_url = <<>> \/ ~hreq.team_name \/ ~hreq.leader_name
    /\ hres' = 400
    /\ UNCHANGED <<notApi, hreq, stream, eng>>

\* the URL does not mention the forge
POST_notForge ==
    /\ hres = 0
    /\ hreq.repo_url # <<>> /\ hreq.team_name /\ hreq.leader_name
    /\ ~includesForge(hreq.repo_url)
    /\ hres' = 400
    /\ UNCHANGED <<notApi, hreq, stream, eng>>

\* new RepoHealerEngine throws in _parseRepoUrl: the outer catch answers
POST_engineThrows ==
    /\ hres = 0
    /\ hreq.repo_url # <<>> /\ hreq.team_name /\ hreq.leader_name
    /\ includesForge(hreq.repo_url)
    /\ ~parseRepoUrl(hreq.repo_url)
    /\ hres' = 500
    /\ UNCHANGED <<notApi, hreq, stream, eng>>

\* the stream starts: run emits start and clone and awaits cloner.clone()
POST_stream ==
    /\ hres = 0
    /\ hreq.repo_url # <<>> /\ hreq.team_name /\ hreq.leader_name
    /\ includesForge(hreq.repo_url)
    /\ parseRepoUrl(hreq.repo_url)
    /\ hres' = 200
    /\ stream' = [state |-> "open", events |-> Emitted(<<"start", "clone">>)]
    /\ eng' = [eng EXCEPT !.pc = "clone", !.cloner = TRUE, !.outcome = "running"]
    /\ UNCHANGED <<notApi, hreq>>

\* the client closes the stream while the engine awaits something
clientClose ==
    /\ stream.state = "open"
    /\ eng.pc \notin {"idle", "cleanup", "done"}
    /\ stream' = [stream EXCEPT !.state = "cancelled"]
    /\ UNCHANGED <<notApi, hreq, hres, eng>>

run_clone ==
    /\ eng.pc = "clone"
    /\ \E ok \in BOOLEAN, dir \in BOOLEAN :
          IF ok
          THEN Continue(<<"clone", "test">>, [eng EXCEPT !.pc = "test", !.cloneDir = TRUE])
          ELSE Thrown([eng EXCEPT !.cloneDir = dir])
    /\ UNCHANGED <<notApi, hreq, hres>>

run_test ==
    /\ eng.pc = "test"
    /\ \E ok \in BOOLEAN :
          IF ok
          THEN Continue(<<"test", "analyze">>, [eng EXCEPT !.pc = "analyze"])
          ELSE Thrown(eng)
    /\ UNCHANGED <<notApi, hreq, hres>>

run_analyze ==
    /\ eng.pc = "analyze"
    /\ \E ok \in BOOLEAN, clean \in BOOLEAN :
          IF ~ok THEN Thrown(eng)
          ELSE IF clean THEN Finish(<<"analyze">>, "PASSED")
          ELSE Continue(<<"analyze", "branch">>, [eng EXCEPT !.pc = "getRef"])
    /\ UNCHANGED <<notApi, hreq, hres>>

\* createBranch has read the base ref and sends createRef
run_getRef ==
    /\ eng.pc = "getRef"
    /\ \E ok \in BOOLEAN :
          IF ok
          THEN eng' = IssueCall([eng EXCEPT !.pc = "createRef"]) /\ stream' = stream
          ELSE Thrown(eng)
    /\ UNCHANGED <<notApi, hreq, hres>>

\* createBranch returns; Orchestrator.run and _applyFixes start
run_createRef ==
    /\ eng.pc = "createRef"
    /\ \E ok \in BOOLEAN :
          IF ok
          THEN Continue(<<"branch", "fix", "orchestrator", "orchestrator">>,
                        [eng EXCEPT !.pc = "getFileContent", !.inRetry = FALSE,
                                    !.applied = FALSE])
          ELSE Thrown(eng)
    /\ UNCHANGED <<notApi, hreq, hres>>

run_getFileContent ==
    /\ eng.pc = "getFileContent"
    /\ \E found \in BOOLEAN :
          IF found
          THEN eng' = [eng EXCEPT !.pc = "generateFix"] /\ stream' = stream
          ELSE IF Open THEN AfterApplyFixes(eng, <<"orchestrator">>)
          ELSE Thrown(eng)
    /\ UNCHANGED <<notApi, hreq, hres>>

\* the progress emits after generateFix are inside its try block
run_generateFix ==
    /\ eng.pc = "generateFix"
    /\ \E fix \in {"fixed", "unfixable", "throws"} :
          CASE fix = "fixed" ->
                  /\ eng' = IssueCall([eng EXCEPT !.pc = "commitFile", !.applied = TRUE])
                  /\ stream' = IF Open THEN Enqueue(Emitted(<<"orchestrator">>)) ELSE stream
            [] fix = "unfixable" -> AfterApplyFixes(eng, <<"orchestrator">>)
            [] fix = "throws" -> AfterApplyFixes(eng, <<>>)
    /\ UNCHANGED <<notApi, hreq, hres>>

\* so is the emit after commitFile
run_commitFile ==
    /\ eng.pc = "commitFile"
    /\ \E ok \in BOOLEAN :
          AfterApplyFixes(eng, IF ok THEN <<"orchestrator">> ELSE <<>>)
    /\ UNCHANGED <<notApi, hreq, hres>>

run_createPR ==
    /\ eng.pc = "createPR"
    /\ \E ok \in BOOLEAN :
          IF ok
          THEN eng' = [eng EXCEPT !.pc = "hasCIConfigured"] /\ stream' = stream
          ELSE Thrown(eng)
    /\ UNCHANGED <<notApi, hreq, hres>>

run_hasCIConfigured ==
    /\ eng.pc = "hasCIConfigured"
    /\ \E hasCi \in BOOLEAN :
          IF hasCi THEN LoopTop(eng) ELSE Finish(<<"orchestrator">>, "NO_CI")
    /\ UNCHANGED <<notApi, hreq, hres>>

\* getLatestCommitSha and waitForChecks
run_waitForChecks ==
    /\ eng.pc = "waitForChecks"
    /\ \E ci \in {"PASSED", "FAILED", "throws"}, ciIssues \in BOOLEAN :
          CASE ci = "throws" -> Thrown(eng)
            [] ci = "PASSED" ->
                  Continue(<<"orchestrator">>, IssueCall([eng EXCEPT !.pc = "updatePR_passed"]))
            [] ci = "FAILED" ->
                  IF eng.retryCount >= maxRetries
                  THEN Continue(<<"orchestrator", "orchestrator">>,
                                IssueCall([eng EXCEPT !.pc = "updatePR_final"]))
                  ELSE IF ciIssues
                  THEN Continue(<<"orchestrator", "orchestrator", "orchestrator">>,
                                [eng EXCEPT !.pc = "getFileContent", !.inRetry = TRUE,
                                            !.applied = FALSE])
                  ELSE Continue(<<"orchestrator">>,
                                IssueCall([eng EXCEPT !.pc = "updatePR_retry"]))
    /\ UNCHANGED <<notApi, hreq, hres>>

\* _updatePRBody
run_updatePR ==
    /\ eng.pc \in {"updatePR_passed", "updatePR_retry", "updatePR_final"}
    /\ \E ok \in BOOLEAN :
          IF ~ok THEN Thrown(eng)
          ELSE CASE eng.pc = "updatePR_passed" -> Finish(<<>>, "PASSED")
                 [] eng.pc = "updatePR_final" -> Finish(<<>>, "FAILED")
                 [] eng.pc = "updatePR_retry" -> LoopTop(eng)
    /\ UNCHANGED <<notApi, hreq, hres>>

\* the finally block removes the clone; run settles and the stream gets its last event
run_cleanup ==
    /\ eng.pc = "cleanup"
    /\ eng' = [eng EXCEPT !.pc = "done", !.cloneDir = FALSE]
    /\ stream' =
          IF ~Open THEN stream
          ELSE [state |-> "closed",
                events |-> stream.events \o
                   <<IF eng.outcome = "returned" THEN Event("result", TRUE)
                     ELSE Event("error", TRUE)>>]
    /\ UNCHANGED <<notApi, hreq, hres>>

ApiNext ==
    \/ POST_missingField
    \/ POST_notForge
    \/ POST_engineThrows
    \/ POST_stream
    \/ clientClose
    \/ run_clone
    \/ run_test
    \/ run_analyze
    \/ run_getRef
    \/ run_createRef
    \/ run_getFileContent
    \/ run_generateFix
    \/ run_commitFile
    \/ run_createPR
    \/ run_hasCIConfigured
    \/ run_waitForChecks
    \/ run_updatePR
    \/ run_cleanup

SpecApi == ApiInit /\ [][ApiNext]_vars
\* the events that end a stream: stage result, or stage error with the results
TerminalEvent(e) == e.stage = "result" \/ (e.stage = "error" /\ e.results)

TerminalAt == {i \in 1..Len(stream.events) : TerminalEvent(stream.events[i])}

\* at most one terminal event, nothing after it, and the server closes the stream
\* only with it as the last event
TerminalIsLast ==
    /\ TerminalAt \subseteq {Len(stream.events)}
    /\ stream.state = "closed" <=> TerminalAt # {}

\* C17 as stated: every heal stream ends with exactly one terminal event; it is
\* closed only after that event was enqueued and no event follows it.
C17_EveryStreamTerminal ==
    /\ TerminalIsLast
    /\ eng.pc = "done" => TerminalAt = {Len(stream.events)}

\* C17, amended: every heal stream that the client has not closed ends with exactly
\* one terminal event, enqueued after every progress event, and is closed right
\* after it; a stream the client closed gets no terminal event; no stream has two
\* terminal events or an event after one.
C17_TerminalEvent ==
    /\ TerminalIsLast
    /\ (eng.pc = "done" /\ stream.state # "cancelled") => TerminalAt = {Len(stream.events)}
    /\ stream.state = "cancelled" => TerminalAt = {}

\* a failed heal whose stream the client kept open: the engine's own error event,
\* then the terminal one
C17_Witness ==
    /\ eng.pc = "done"
    /\ stream.state = "closed"
    /\ Len(stream.events) > 2
    /\ stream.events[Len(stream.events)] = Event("error", TRUE)
    /\ stream.events[Len(stream.events) - 1] = Event("error", FALSE)

\* C18: once the client has closed the stream the heal sends no forge call that
\* changes the repository, and it ends recorded FAILED with the clone removed.
C18_CancelStops ==
    /\ ~eng.mutatedAfterClose
    /\ (eng.pc = "done" /\ stream.state = "cancelled") =>
          (eng.final_ci_status = "FAILED" /\ ~eng.cloneDir)

\* C19: the answer is 400, and no heal starts, whenever a field is missing or
\* owner and repo cannot be derived from repo_url.
C19_BadRequest400 ==
    (/\ hres # 0
     /\ \/ hreq.repo_url = <<>>
        \/ ~hreq.team_name
        \/ ~hreq.leader_name
        \/ ~parseRepoUrl(hreq.repo_url))
       => (hres = 400 /\ eng = NoEngine /\ stream = NoStream)
\* ---------------------------------------------------------------------------
\* rateLimit (src/unnamed/part_002)
\* ---------------------------------------------------------------------------

\* largest options.maxRequests
MaxLimit == 2
\* largest options.windowMs, in ms
MaxWindowMs == 2
\* the clock stops here, in ms
MaxClock == 4
\* most requests handled
MaxServed == 5

\* client addresses (x-forwarded-for / x-real-ip)
Ips == {"10.0.0.1", "10.0.0.2"}

NoRecord == [count |-> 0, resetTime |-> -1]

\* Math.ceil(ms / 1000)
CeilSeconds(ms) == (ms + 999) \div 1000

RateLimitInit ==
    /\ options \in [maxRequests : 1..MaxLimit, windowMs : 1..MaxWindowMs]
    /\ clock = 0
    /\ rateLimitStore = [ip \in Ips |-> NoRecord]
    /\ allowed = [ip \in Ips |-> [t \in 0..MaxClock |-> 0]]
    /\ limited = [status |-> 0, retryAfter |-> 0]
    /\ served = 0
    /\ HealIdle /\ WebhookIdle /\ InstallIdle /\ BranchIdle /\ CommitIdle
    /\ FixIdle /\ AstIdle /\ ChecksIdle /\ ApiIdle /\ NewerIdle

\* time passes
tick ==
    /\ clock < MaxClock
    /\ clock' = clock + 1
    /\ UNCHANGED <<notRateLimit, options, rateLimitStore, allowed, limited, served>>

\* the request is let through (rateLimit returns null)
Allow(ip) ==
    /\ allowed' = [allowed EXCEPT ![ip][clock] = @ + 1]
    /\ limited' = [status |-> 200, retryAfter |-> 0]

\* no record, or now > record.resetTime: a new window
rateLimit_newWindow(ip) ==
    /\ served < MaxServed
    /\ LET record == rateLimitStore[ip]
       IN  /\ record = NoRecord \/ clock > record.resetTime
           /\ rateLimitStore' = [rateLimitStore EXCEPT
                                   ![ip] = [count |-> 1,
                                            resetTime |-> clock + options.windowMs]]
    /\ Allow(ip)
    /\ served' = served + 1
    /\ UNCHANGED <<notRateLimit, options, clock>>

\* record.count++ and the count is within maxRequests
rateLimit_allow(ip) ==
    /\ served < MaxServed
    /\ LET record == rateLimitStore[ip]
       IN  /\ ~(record = NoRecord \/ clock > record.resetTime)
           /\ record.count + 1 <= options.maxRequests
           /\ rateLimitStore' = [rateLimitStore EXCEPT ![ip].count = @ + 1]
    /\ Allow(ip)
    /\ served' = served + 1
    /\ UNCHANGED <<notRateLimit, options, clock>>

\* record.count++ and the count is beyond maxRequests: 429
rateLimit_limit(ip) ==
    /\ served < MaxServed
    /\ LET record == rateLimitStore[ip]
       IN  /\ ~(record = NoRecord \/ clock > record.resetTime)
           /\ record.count + 1 > options.maxRequests
           /\ rateLimitStore' = [rateLimitStore EXCEPT ![ip].count = @ + 1]
           /\ limited' = [status |-> 429,
                          retryAfter |-> CeilSeconds(record.resetTime - clock)]
    /\ served' = served + 1
    /\ UNCHANGED <<notRateLimit, options, clock, allowed>>

\* the setInterval callback: entries past their resetTime are deleted
cleanupStore ==
    /\ \E ip \in Ips : rateLimitStore[ip] # NoRecord /\ clock - rateLimitStore[ip].resetTime > 0
    /\ rateLimitStore' = [ip \in Ips |->
                            IF rateLimitStore[ip] # NoRecord
                               /\ clock - rateLimitStore[ip].resetTime > 0
                            THEN NoRecord ELSE rateLimitStore[ip]]
    /\ UNCHANGED <<notRateLimit, options, clock, allowed, limited, served>>

newWindow == \E ip \in Ips : rateLimit_newWindow(ip)
allowRequest == \E ip \in Ips : rateLimit_allow(ip)
limitRequest == \E ip \in Ips : rateLimit_limit(ip)

RateLimitNext ==
    \/ tick
    \/ newWindow
    \/ allowRequest
    \/ limitRequest
    \/ cleanupStore

SpecRateLimit == RateLimitInit /\ [][RateLimitNext]_vars

\* the requests of a client let through at times from..to
RECURSIVE AllowedIn(_, _, _)
AllowedIn(ip, from, to) ==
    IF from > to \/ from > MaxClock THEN 0
    ELSE allowed[ip][from] + AllowedIn(ip, from + 1, to)

\* C20: for every client and every interval of length windowMs, at most maxRequests
\* requests are let through; a request that is refused gets 429 with Retry-After.
C20_SlidingWindow ==
    /\ \A ip \in Ips, t \in 0..MaxClock :
          AllowedIn(ip, t, t + options.windowMs - 1) <= options.maxRequests
    /\ limited.status = 429 => limited.retryAfter >= 0
\* ---------------------------------------------------------------------------
\* Installation tokens: getInstallationOctokit and BranchManager._getOctokit
\* ---------------------------------------------------------------------------

\* every component modelled before the tokens
olderVars == <<healVars, whVars, instVars, brVars, cmVars, fixVars, astVars,
               ckVars, apiVars, rlVars>>

OlderIdle ==
    /\ HealIdle /\ WebhookIdle /\ InstallIdle /\ BranchIdle /\ CommitIdle
    /\ FixIdle /\ AstIdle /\ ChecksIdle /\ ApiIdle /\ RateLimitIdle

notToken == <<olderVars, glVars, scVars, clVars, sbVars, dtVars, apVars, eqVars, ssVars, jbVars>>

\* an installation token lives for one hour
TokenTtl == 60
\* a cached token is to be renewed when less than this is left of it
RefreshMargin == 5
MaxTkClock == 84

Callers == {"a", "b"}
\* 0: the caller has no installation id
InstallationIds == {0, 1, 2}
Ticks == {28}

\* a token for installation id is at hand with at least the margin left
Fresh(id) == tokens[id] # NoToken /\ tokens[id] - tkClock >= RefreshMargin

Minting(c) == tkCalls[c].pc = "minting"

TokenInit ==
    /\ env \in [app : BOOLEAN, pat : BOOLEAN]
    /\ tkClock = 0
    /\ tokens = [id \in InstallationIds |-> NoToken]
    /\ tkCalls = [c \in Callers |-> NoTokenCall]
    /\ octokit = "null"
    /\ OlderIdle /\ GrammarIdle /\ ScanIdle /\ ClassifyIdle /\ SandboxIdle /\ DetectIdle /\ ApplyIdle /\ EquivIdle /\ SessionsIdle /\ InlineIdle

tkTick ==
    /\ \E dt \in Ticks :
        /\ tkClock + dt <= MaxTkClock
        /\ tkClock' = tkClock + dt
    /\ UNCHANGED <<env, tokens, tkCalls, octokit>>
    /\ UNCHANGED notToken

\* the client a call leaves behind: the BranchManager keeps the one it awaited
Keep(c, result) ==
    IF tkCalls[c].via = "branchManager" /\ result # "throw" THEN result ELSE octokit

\* without app credentials or installation id: the personal access token, or a throw
Fallback == IF env.pat THEN "pat" ELSE "throw"

\* getInstallationOctokit up to its await: auth({ type: 'installation' }) is sent
Enter(c, id, via) ==
    IF env.app /\ id # 0
    THEN [pc |-> "minting", installationId |-> id, via |-> via,
          fresh |-> Fresh(id), result |-> "none"]
    ELSE [pc |-> "returned", installationId |-> id, via |-> via,
          fresh |-> FALSE, result |-> Fallback]

getInstallationOctokit(c, id) ==
    /\ tkCalls[c].pc = "idle"
    /\ tkCalls' = [tkCalls EXCEPT ![c] = Enter(c, id, "direct")]
    /\ UNCHANGED <<env, tkClock, tokens, octokit>>
    /\ UNCHANGED notToken

\* BranchManager._getOctokit with a client already stored
getOctokit_stored(c) ==
    /\ tkCalls[c].pc = "idle"
    /\ octokit # "null"
    /\ tkCalls' = [tkCalls EXCEPT ![c] =
            [pc |-> "returned", installationId |-> 0, via |-> "branchManager",
             fresh |-> FALSE, result |-> octokit]]
    /\ UNCHANGED <<env, tkClock, tokens, octokit>>
    /\ UNCHANGED notToken

\* BranchManager._getOctokit with none stored: it awaits getInstallationOctokit
getOctokit_null(c, id) ==
    /\ tkCalls[c].pc = "idle"
    /\ octokit = "null"
    /\ LET entered == Enter(c, id, "branchManager")
       IN  /\ tkCalls' = [tkCalls EXCEPT ![c] = entered]
           /\ octokit' = IF entered.pc = "returned" /\ entered.result # "throw"
                         THEN entered.result ELSE octokit
    /\ UNCHANGED <<env, tkClock, tokens>>
    /\ UNCHANGED notToken

\* the forge answers with a token
mint_token(c) ==
    /\ Minting(c)
    /\ tokens' = [tokens EXCEPT ![tkCalls[c].installationId] = tkClock + TokenTtl]
    /\ tkCalls' = [tkCalls EXCEPT ![c].pc = "returned", ![c].result = "app"]
    /\ octokit' = Keep(c, "app")
    /\ UNCHANGED <<env, tkClock>>
    /\ UNCHANGED notToken

\* the mint fails: the catch falls back to the personal access token
mint_error(c) ==
    /\ Minting(c)
    /\ tkCalls' = [tkCalls EXCEPT ![c].pc = "returned", ![c].result = Fallback]
    /\ octokit' = Keep(c, Fallback)
    /\ UNCHANGED <<env, tkClock, tokens>>
    /\ UNCHANGED notToken

\* the caller has its client (or its exception) and may call again
tkDone(c) ==
    /\ tkCalls[c].pc = "returned"
    /\ tkCalls' = [tkCalls EXCEPT ![c] = NoTokenCall]
    /\ UNCHANGED <<env, tkClock, tokens, octokit>>
    /\ UNCHANGED notToken

TokenNext ==
    \/ tkTick
    \/ \E c \in Callers, id \in InstallationIds : getInstallationOctokit(c, id)
    \/ \E c \in Callers : getOctokit_stored(c)
    \/ \E c \in Callers, id \in InstallationIds \ {0} : getOctokit_null(c, id)
    \/ \E c \in Callers : mint_token(c)
    \/ \E c \in Callers : mint_error(c)
    \/ \E c \in Callers : tkDone(c)

SpecToken == TokenInit /\ [][TokenNext]_vars

\* C21: a token is minted for an installation only when none is cached for it
\* or the cached one has less than five minutes left, and callers in that
\* situation share one mint: no mint is under way while a token with at least
\* the margin left was at hand when it began, and no two mints for the same
\* installation are under way together.
C21_SingleFlightMint ==
    /\ \A c \in Callers : Minting(c) => ~tkCalls[c].fresh
    /\ \A c, d \in Callers :
        (c # d /\ Minting(c) /\ Minting(d))
            => tkCalls[c].installationId # tkCalls[d].installationId
\* ---------------------------------------------------------------------------
\* GrammarLoader: init, getLanguage, parse
\* ---------------------------------------------------------------------------

notGrammar == <<olderVars, tkVars, scVars, clVars, sbVars, dtVars, apVars, eqVars, ssVars, jbVars>>

\* "cobol" has no entry in GRAMMAR_FILES
LanguageNames == {"javascript", "python", "cobol"}
GRAMMAR_FILES == {"javascript", "python"}
Ops == {"init", "getLanguage", "parse"}

GrammarInit ==
    /\ GrammarStart
    /\ glCalls = [c \in Callers |-> NoGrammarCall]
    /\ loaded = [l \in LanguageNames |-> 0]
    /\ OlderIdle /\ TokenIdle /\ ScanIdle /\ ClassifyIdle /\ SandboxIdle /\ DetectIdle /\ ApplyIdle /\ EquivIdle /\ SessionsIdle /\ InlineIdle

\* init() up to its first suspension: it returns when initialised, hands out
\* the pending promise when there is one, and starts Parser.init otherwise
init_enter(c, op, languageName) ==
    /\ glCalls[c].pc = "idle"
    /\ glCalls' = [glCalls EXCEPT ![c] =
            [pc |-> "init", op |-> op, languageName |-> languageName]]
    /\ IF ~initialized /\ initPromise = "null"
       THEN /\ initPromise' = "pending"
            /\ inits' = inits + 1
       ELSE UNCHANGED <<initPromise, inits>>
    /\ UNCHANGED <<initialized, languages, loaded>>
    /\ UNCHANGED notGrammar

\* Parser.init settles
Parser_init_resolves ==
    /\ initPromise = "pending"
    /\ initPromise' = "resolved"
    /\ initialized' = TRUE
    /\ UNCHANGED <<languages, glCalls, inits, loaded>>
    /\ UNCHANGED notGrammar

Parser_init_rejects ==
    /\ initPromise = "pending"
    /\ initPromise' = "rejected"
    /\ UNCHANGED <<initialized, languages, glCalls, inits, loaded>>
    /\ UNCHANGED notGrammar

\* the await of init() throws in a caller
init_throws(c) ==
    /\ glCalls[c].pc = "init"
    /\ initPromise = "rejected"
    /\ glCalls' = [glCalls EXCEPT ![c].pc = "threw"]
    /\ UNCHANGED <<initialized, initPromise, languages, inits, loaded>>
    /\ UNCHANGED notGrammar

\* init() itself is done
init_returns(c) ==
    /\ glCalls[c].pc = "init"
    /\ glCalls[c].op = "init"
    /\ initialized
    /\ glCalls' = [glCalls EXCEPT ![c].pc = "returned"]
    /\ UNCHANGED <<initialized, initPromise, languages, inits, loaded>>
    /\ UNCHANGED notGrammar

\* getLanguage after its await of init(): what it does with the language map
Lookup(languageName) ==
    IF languageName \in languages THEN "returned"
    ELSE IF languageName \notin GRAMMAR_FILES THEN "threw"
    ELSE "loading"

getLanguage_lookup(c) ==
    /\ glCalls[c].pc = "init"
    /\ glCalls[c].op \in {"getLanguage", "parse"}
    /\ initialized
    /\ glCalls' = [glCalls EXCEPT ![c].pc = Lookup(glCalls[c].languageName)]
    /\ UNCHANGED <<initialized, initPromise, languages, inits, loaded>>
    /\ UNCHANGED notGrammar

\* Parser.Language.load settles
load_resolves(c) ==
    /\ glCalls[c].pc = "loading"
    /\ languages' = languages \cup {glCalls[c].languageName}
    /\ loaded' = [loaded EXCEPT ![glCalls[c].languageName] = @ + 1]
    /\ glCalls' = [glCalls EXCEPT ![c].pc = "returned"]
    /\ UNCHANGED <<initialized, initPromise, inits>>
    /\ UNCHANGED notGrammar

load_rejects(c) ==
    /\ glCalls[c].pc = "loading"
    /\ glCalls' = [glCalls EXCEPT ![c].pc = "threw"]
    /\ UNCHANGED <<initialized, initPromise, languages, inits, loaded>>
    /\ UNCHANGED notGrammar

\* the caller has its answer and may call again
glDone(c) ==
    /\ glCalls[c].pc \in {"returned", "threw"}
    /\ glCalls' = [glCalls EXCEPT ![c] = NoGrammarCall]
    /\ UNCHANGED <<initialized, initPromise, languages, inits, loaded>>
    /\ UNCHANGED notGrammar

GrammarNext ==
    \/ \E c \in Callers, op \in Ops, l \in LanguageNames : init_enter(c, op, l)
    \/ Parser_init_resolves
    \/ Parser_init_rejects
    \/ \E c \in Callers : init_throws(c)
    \/ \E c \in Callers : init_returns(c)
    \/ \E c \in Callers : getLanguage_lookup(c)
    \/ \E c \in Callers : load_resolves(c)
    \/ \E c \in Callers : load_rejects(c)
    \/ \E c \in Callers : glDone(c)

SpecGrammar == GrammarInit /\ [][GrammarNext]_vars

\* C22: every grammar is loaded at most once and the parser runtime is
\* initialised at most once, whatever the interleaving of init, getLanguage
\* and parse.
C22_LoadedOnce ==
    /\ inits <= 1
    /\ \A l \in LanguageNames : loaded[l] <= 1
\* ---------------------------------------------------------------------------
\* analyze: the loop over the rules (ASTEngine.analyze of the worker and
\* AnalysisEngine.analyze of src/unnamed/part_009)
\* ---------------------------------------------------------------------------

notScan == <<olderVars, tkVars, glVars, clVars, sbVars, dtVars, apVars, eqVars, ssVars, jbVars>>

\* most rules of one analysis
MaxRules == 2
\* most matches of one rule that are not suppressed
MaxMatches == 1

ScanEngines == {"ASTEngine", "AnalysisEngine"}

\* a rule: whether compiling (lang.query) or running (query.matches) its query
\* throws, and the matches it has otherwise
RuleKinds == [fails : {"none", "compile", "run"}, matches : 0..MaxMatches]
RuleLists == SeqsUpTo(RuleKinds, MaxRules)

ScanInit ==
    /\ scan \in {[NoScan EXCEPT !.pc = "called", !.engine = e, !.rules = rs] :
                    e \in ScanEngines, rs \in RuleLists}
    /\ OlderIdle /\ TokenIdle /\ GrammarIdle /\ ClassifyIdle /\ SandboxIdle /\ DetectIdle /\ ApplyIdle /\ EquivIdle /\ SessionsIdle /\ InlineIdle

\* a violation of rule number ruleId
Violation(ruleId, isSystemError) == [ruleId |-> ruleId, isSystemError |-> isSystemError]

RECURSIVE Times(_, _)
Times(v, n) == IF n = 0 THEN <<>> ELSE Append(Times(v, n - 1), v)

\* AnalysisEngine returns [] at once when it is given no rules
analyze_noRules ==
    /\ scan.pc = "called"
    /\ scan.engine = "AnalysisEngine"
    /\ scan.rules = <<>>
    /\ scan' = [scan EXCEPT !.pc = "returned"]
    /\ UNCHANGED notScan

\* grammarLoader.parse (and getLanguage) succeed: the loop begins
analyze_parse ==
    /\ scan.pc = "called"
    /\ scan.engine = "AnalysisEngine" => scan.rules # <<>>
    /\ scan' = [scan EXCEPT !.pc = "loop", !.parsed = TRUE]
    /\ UNCHANGED notScan

\* grammarLoader.parse throws: ASTEngine returns the error with no violations,
\* AnalysisEngine logs and rethrows
analyze_parseThrows ==
    /\ scan.pc = "called"
    /\ scan.engine = "AnalysisEngine" => scan.rules # <<>>
    /\ scan' = [scan EXCEPT !.pc = IF scan.engine = "ASTEngine" THEN "returned" ELSE "threw"]
    /\ UNCHANGED notScan

\* mutant: the catch is around the loop, not inside it
AfterQueryError_abort(position) == "threw"

\* the catch inside the loop body: log (AnalysisEngine adds a configuration
\* error for the rule) and go on with the next rule
AfterQueryError(position) == "loop"

\* what the catch of a failed query adds to the violations
OnQueryError(engine, ruleId) ==
    IF engine = "AnalysisEngine" THEN <<Violation(ruleId, TRUE)>> ELSE <<>>

\* queries that lang.query has compiled for the rule (0 when it threw)
Compiled(fails) == IF fails = "compile" THEN 0 ELSE 1

\* one pass of the loop body: the rule's query is compiled and run; query.delete()
\* is the last statement of the try block, after the matches are processed
analyze_rule ==
    /\ scan.pc = "loop"
    /\ scan.next <= Len(scan.rules)
    /\ LET rule == scan.rules[scan.next]
       IN  scan' =
             IF rule.fails = "none"
             THEN [scan EXCEPT
                     !.violations = @ \o Times(Violation(scan.next, FALSE), rule.matches),
                     !.next = @ + 1,
                     !.compiled = @ + Compiled(rule.fails),
                     !.released = @ + 1]
             ELSE [scan EXCEPT
                     !.violations = @ \o OnQueryError(scan.engine, scan.next),
                     !.next = @ + 1,
                     !.compiled = @ + Compiled(rule.fails),
                     !.pc = AfterQueryError(scan.next)]
    /\ UNCHANGED notScan

\* ASTEngine: getQueries leaves no rule (queries.length === 0): the result with
\* 'No queries match the specified filters' is returned at once
analyze_noQueries ==
    /\ scan.pc = "loop"
    /\ scan.rules = <<>>
    /\ scan' = [scan EXCEPT !.pc = "returned"]
    /\ UNCHANGED notScan

\* the loop is over: tree.delete(), return the violations
analyze_return ==
    /\ scan.pc = "loop"
    /\ scan.rules # <<>>
    /\ scan.next > Len(scan.rules)
    /\ scan' = [scan EXCEPT !.pc = "returned", !.treeDeletes = @ + 1]
    /\ UNCHANGED notScan

ScanNext ==
    \/ analyze_noRules
    \/ analyze_parse
    \/ analyze_parseThrows
    \/ analyze_rule
    \/ analyze_noQueries
    \/ analyze_return

SpecScan == ScanInit /\ [][ScanNext]_vars

\* the violations of rule number ruleId among vs that are no configuration errors
Found(vs, ruleId) ==
    Len(SelectSeq(vs, LAMBDA v : v.ruleId = ruleId /\ ~v.isSystemError))

\* C25: when the query of a rule throws at compiling or at running, analyze
\* goes on with the remaining rules: it never throws once the file is parsed,
\* and what it returns holds every match of every rule whose query did not throw.
C25_BadQueryIsolated ==
    /\ scan.parsed => scan.pc # "threw"
    /\ (scan.parsed /\ scan.pc = "returned") =>
          \A j \in 1..Len(scan.rules) :
             scan.rules[j].fails = "none" => Found(scan.violations, j) = scan.rules[j].matches

\* an analysis returned the match of its second rule after the query of its
\* first rule had thrown
C25_Witness ==
    /\ scan.pc = "returned"
    /\ Len(scan.rules) = 2
    /\ scan.rules[1].fails # "none"
    /\ scan.rules[2] = [fails |-> "none", matches |-> 1]
    /\ Found(scan.violations, 2) = 1

\* C40: on every return of analyze after a successful parse the tree has been
\* released, tree.delete() called exactly once, and every query that was
\* compiled has been released, also when the filtered rule set is empty and
\* when a query throws while matching.
C40_TreeAndQueriesReleased ==
    (scan.parsed /\ scan.pc = "returned") =>
       /\ scan.treeDeletes = 1
       /\ scan.released = scan.compiled
\* ---------------------------------------------------------------------------
\* RepoAnalyzer._classifyViolation (src/web/lib/repo-healer/test-runner.js)
\* ---------------------------------------------------------------------------

notClassify == <<olderVars, tkVars, glVars, scVars, sbVars, dtVars, apVars, eqVars, ssVars, jbVars>>

\* most keywords a message contains
MaxWords == 2

BugKinds == {"SYNTAX", "IMPORT", "TYPE_ERROR", "INDENTATION", "LINTING", "LOGIC"}

\* the category of a raw violation as the engines and the regex fallback write it
Categories == {"", "style", "naming", "security", "type", "LINTING", "logic"}

\* A message, and a rule name, is the set of the keywords it contains.
MessageWords == {"syntax", "import", "type", "indent", "lint", "unused"}
RuleWords == {"import", "indent"}

Violations ==
    [category : Categories,
     message : {ws \in SUBSET MessageWords : Cardinality(ws) <= MaxWords},
     rule : SUBSET RuleWords]

\* String.prototype.toUpperCase on the categories
toUpperCase(category) ==
    CASE category = "style" -> "STYLE"
      [] category = "naming" -> "NAMING"
      [] category = "security" -> "SECURITY"
      [] category = "type" -> "TYPE"
      [] category = "logic" -> "LOGIC"
      [] OTHER -> category

\* text.includes(word) for a text given by the keywords in it
includes(text, word) == word \in text

\* category.includes('type') on the category string itself (case-sensitive)
categoryIncludesType(category) == category = "type"

classifyViolation(violation) ==
    LET category == toUpperCase(violation.category)
        msg == violation.message
        rule == violation.rule
    IN  IF category \in BugKinds THEN category
        ELSE IF includes(msg, "syntax") THEN "SYNTAX"
        ELSE IF includes(msg, "import") \/ includes(rule, "import") THEN "IMPORT"
        ELSE IF includes(msg, "type") \/ categoryIncludesType(category) THEN "TYPE_ERROR"
        ELSE IF includes(msg, "indent") \/ includes(rule, "indent") THEN "INDENTATION"
        ELSE IF \/ category = "style" \/ category = "naming"
                \/ includes(msg, "lint") \/ includes(msg, "unused")
             THEN "LINTING"
        ELSE "LOGIC"

ClassifyInit ==
    /\ cls \in {[NoClassification EXCEPT !.pc = "called", !.violation = v] : v \in Violations}
    /\ OlderIdle /\ TokenIdle /\ GrammarIdle /\ ScanIdle /\ SandboxIdle /\ DetectIdle /\ ApplyIdle /\ EquivIdle /\ SessionsIdle /\ InlineIdle

classify ==
    /\ cls.pc = "called"
    /\ cls' = [cls EXCEPT !.pc = "returned", !.result = classifyViolation(cls.violation)]
    /\ UNCHANGED notClassify

SpecClassify == ClassifyInit /\ [][classify]_vars

\* C26: classification returns a BugKind for every raw violation, the one of
\* the first rule that matches in the order 1-7: an uncategorised violation
\* that matches none of the rules 1-5 is LINTING when its category is style or
\* naming (or its message speaks of lint or unused), and LOGIC is returned only
\* when none of the rules 1-6 matches.
C26_Precedence ==
    cls.pc = "returned" =>
       LET v == cls.violation
           keeps == toUpperCase(v.category) \in BugKinds
           syntax == "syntax" \in v.message
           import == "import" \in v.message \/ "import" \in v.rule
           type == "type" \in v.message
           indent == "indent" \in v.message
           linting == v.category \in {"style", "naming"}
                      \/ "lint" \in v.message \/ "unused" \in v.message
       IN  /\ cls.result \in BugKinds
           /\ keeps => cls.result = toUpperCase(v.category)
           /\ (~keeps /\ ~syntax /\ ~import /\ ~type /\ ~indent /\ linting)
                 => cls.result = "LINTING"
           /\ cls.result = "LOGIC"
                 => (~syntax /\ ~import /\ ~type /\ ~indent /\ ~linting) \/ keeps
\* ---------------------------------------------------------------------------
\* DockerSandbox.runTests (src/unnamed/part_003)
\* ---------------------------------------------------------------------------

notSandbox == <<olderVars, tkVars, glVars, scVars, clVars, dtVars, apVars, eqVars, ssVars, jbVars>>

\* this.timeoutMs = options.timeoutMs || 180000
sandboxTimeoutMs == 180000
\* the clock advances in steps of half the time limit, at most this often
MaxSbTicks == 4

\* what Math.random().toString(36).slice(2, 8) may give
Suffixes == {"k3x9ab", "q07zzp"}

SandboxInit ==
    /\ sbClock = 0
    /\ runs = [c \in Callers |-> NoRun]
    /\ OlderIdle /\ TokenIdle /\ GrammarIdle /\ ScanIdle /\ ClassifyIdle /\ DetectIdle /\ ApplyIdle /\ EquivIdle /\ SessionsIdle /\ InlineIdle

\* the containers the docker daemon holds, by name
Containers == {runs[c].containerName : c \in {d \in Callers : runs[d].container \in {"running", "exited"}}}

\* a timer that is due fires before time goes on; the docker CLI creates the
\* container within the same clock step in which it was spawned
sbTick ==
    /\ sbClock < MaxSbTicks * (sandboxTimeoutMs \div 2)
    /\ \A c \in Callers : runs[c].timer = "armed" => sbClock < runs[c].deadline
    /\ \A c \in Callers : runs[c].pc # "spawned"
    /\ sbClock' = sbClock + sandboxTimeoutMs \div 2
    /\ UNCHANGED runs
    /\ UNCHANGED notSandbox

\* ensureImage() gives false: runTests throws before anything is started
runTests_noImage(c) ==
    /\ runs[c].pc = "idle"
    /\ runs' = [runs EXCEPT ![c].pc = "threw"]
    /\ UNCHANGED sbClock
    /\ UNCHANGED notSandbox

\* mutant: the name is the prefix alone
ContainerName_fixed(now, suffix) == <<"codeguard-sandbox">>

\* `codeguard-sandbox-${Date.now()}-${Math.random().toString(36).slice(2, 8)}`
ContainerName(now, suffix) == <<"codeguard-sandbox", now, suffix>>

\* Math.random() gives no two invocations of one millisecond the same suffix
Drawn(c, suffix) ==
    \A d \in Callers \ {c} :
       runs[d].pc \notin {"idle", "threw"} =>
          runs[d].containerName # <<"codeguard-sandbox", sbClock, suffix>>

\* runTests up to the return of the promise: the name is chosen, docker run is
\* spawned and the timeout guard is armed
runTests_spawn(c, suffix) ==
    /\ runs[c].pc = "idle"
    /\ Drawn(c, suffix)
    /\ runs' = [runs EXCEPT ![c].pc = "spawned",
                            ![c].containerName = ContainerName(sbClock, suffix),
                            ![c].timer = "armed",
                            ![c].deadline = sbClock + sandboxTimeoutMs]
    /\ UNCHANGED sbClock
    /\ UNCHANGED notSandbox

\* proc.on('error'): docker could not be spawned; no container was started
proc_error(c) ==
    /\ runs[c].pc = "spawned"
    /\ runs' = [runs EXCEPT ![c].pc = "resolved", ![c].timer = "cleared", ![c].exitCode = 1]
    /\ UNCHANGED sbClock
    /\ UNCHANGED notSandbox

\* docker run --name: the daemon creates and starts the container, or refuses a
\* name that is in use (the CLI then exits with 125)
docker_run(c) ==
    /\ runs[c].pc = "spawned"
    /\ runs' = IF runs[c].containerName \in Containers
               THEN [runs EXCEPT ![c].pc = "exited", ![c].exitCode = 125]
               ELSE [runs EXCEPT ![c].pc = "running", ![c].container = "running"]
    /\ UNCHANGED sbClock
    /\ UNCHANGED notSandbox

\* the entrypoint ends by itself
container_exit(c) ==
    /\ runs[c].container = "running"
    /\ \E code \in {0, 1} :
          runs' = [runs EXCEPT ![c].container = "exited", ![c].exitCode = code]
    /\ UNCHANGED sbClock
    /\ UNCHANGED notSandbox

\* mutant: docker kill is not sent
Kill_none(state) == state

\* execSync(`docker kill ${containerName}`): a running container is killed; for
\* any other the command fails and the catch swallows the error
Kill(state) == IF state = "running" THEN "exited" ELSE state

\* the timeout guard fires
timeout_guard(c) ==
    /\ runs[c].timer = "armed"
    /\ sbClock >= runs[c].deadline
    /\ runs' = [runs EXCEPT ![c].timer = "fired",
                            ![c].timedOut = TRUE,
                            ![c].container = Kill(runs[c].container),
                            ![c].exitCode = IF runs[c].container = "running" THEN 137 ELSE @]
    /\ UNCHANGED sbClock
    /\ UNCHANGED notSandbox

\* mutant: docker run without --rm
AutoRemove_off(state) == state

\* --rm: the daemon removes the container once it has exited
AutoRemove(state) == IF state = "exited" THEN "removed" ELSE state

docker_rm(c) ==
    /\ runs[c].container = "exited"
    /\ runs' = [runs EXCEPT ![c].container = AutoRemove(runs[c].container),
                            ![c].pc = "exited"]
    /\ UNCHANGED sbClock
    /\ UNCHANGED notSandbox

\* proc.on('close'): the docker CLI has ended (after the removal when there was
\* a container); the timer is cleared and the promise resolves
proc_close(c) ==
    /\ runs[c].pc = "exited"
    /\ runs' = [runs EXCEPT ![c].pc = "resolved",
                            ![c].timer = IF @ = "armed" THEN "cleared" ELSE @]
    /\ UNCHANGED sbClock
    /\ UNCHANGED notSandbox

SandboxNext ==
    \/ sbTick
    \/ \E c \in Callers : runTests_noImage(c)
    \/ \E c \in Callers, suffix \in Suffixes : runTests_spawn(c, suffix)
    \/ \E c \in Callers : proc_error(c)
    \/ \E c \in Callers : docker_run(c)
    \/ \E c \in Callers : container_exit(c)
    \/ \E c \in Callers : timeout_guard(c)
    \/ \E c \in Callers : docker_rm(c)
    \/ \E c \in Callers : proc_close(c)

SpecSandbox == SandboxInit /\ [][SandboxNext]_vars

Started(c) == runs[c].pc \notin {"idle", "threw"}

notDetect == <<olderVars, tkVars, glVars, scVars, clVars, sbVars, apVars, eqVars, ssVars, jbVars>>

\* most constructs of one source file that some rule targets
MaxConstructs == 2

Filenames == {"test.js", "component.jsx", "lib.mjs", "App.JS", "service.ts", "view.tsx",
              "app.py", "Example.java", "main.go", "main.c", "util.h", "notes.rb",
              "Makefile"}

\* path.extname(filename)
extname(filename) ==
    CASE filename = "test.js" -> ".js"
      [] filename = "component.jsx" -> ".jsx"
      [] filename = "lib.mjs" -> ".mjs"
      [] filename = "App.JS" -> ".JS"
      [] filename = "service.ts" -> ".ts"
      [] filename = "view.tsx" -> ".tsx"
      [] filename = "app.py" -> ".py"
      [] filename = "Example.java" -> ".java"
      [] filename = "main.go" -> ".go"
      [] filename = "main.c" -> ".c"
      [] filename = "util.h" -> ".h"
      [] filename = "notes.rb" -> ".rb"
      [] OTHER -> ""

\* String.prototype.toLowerCase on the extensions
toLowerCase(ext) == IF ext = ".JS" THEN ".js" ELSE ext

\* mutant: .jsx is not in the map
EXT_TO_LANGUAGE_noJsx(ext) ==
    CASE ext \in {".js", ".mjs", ".cjs"} -> "javascript"
      [] ext = ".ts" -> "typescript"
      [] ext = ".tsx" -> "tsx"
      [] ext \in {".py", ".pyw"} -> "python"
      [] ext = ".java" -> "java"
      [] ext = ".go" -> "go"
      [] ext \in {".c", ".h"} -> "c"
      [] OTHER -> "null"

\* EXT_TO_LANGUAGE[ext] || null
EXT_TO_LANGUAGE(ext) ==
    CASE ext \in {".js", ".jsx", ".mjs", ".cjs"} -> "javascript"
      [] ext = ".ts" -> "typescript"
      [] ext = ".tsx" -> "tsx"
      [] ext \in {".py", ".pyw"} -> "python"
      [] ext = ".java" -> "java"
      [] ext = ".go" -> "go"
      [] ext \in {".c", ".h"} -> "c"
      [] OTHER -> "null"

detectLanguage(filename) == EXT_TO_LANGUAGE(toLowerCase(extname(filename)))

\* the keys of GRAMMAR_FILES
GrammarLanguages == {"javascript", "typescript", "tsx", "python", "java", "go", "c"}

isSupported(languageName) == languageName \in GrammarLanguages

\* the catalog a language is mapped to by QUERIES_BY_LANG
QUERIES_BY_LANG(language) ==
    CASE language = "tsx" -> "typescript"
      [] language \in {"javascript", "typescript", "python", "java", "go", "c"} -> language
      [] OTHER -> "none"

\* names of rules of each catalog
Catalog(name) ==
    CASE name = "javascript" -> {"no-eval", "no-dangerously-set-innerhtml"}
      [] name = "typescript" -> {"no-any-type"}
      [] name = "python" -> {"no-eval", "no-exec"}
      [] name = "java" -> {"no-runtime-exec"}
      [] name = "go" -> {"no-exec-command"}
      [] name = "c" -> {"no-gets"}
      [] OTHER -> {}

CatalogNames == {"javascript", "typescript", "python", "java", "go", "c"}

\* queryRegistry.getQueries(language) without filters: the rules of the catalog
getQueries(language) ==
    {[catalog |-> QUERIES_BY_LANG(language), name |-> n] : n \in Catalog(QUERIES_BY_LANG(language))}

\* A construct of a source file is given by the rule that targets it and by
\* whether its line or the line before carries a suppression marker.
Constructs ==
    UNION {[catalog : {c}, name : Catalog(c), suppressed : BOOLEAN] : c \in CatalogNames}

\* query.matches(tree.rootNode): the constructs of the file that the rule targets
matches(rule, constructs) ==
    {k \in constructs : k.catalog = rule.catalog /\ k.name = rule.name}

DetectInit ==
    /\ det \in {[NoDetection EXCEPT !.pc = "called", !.filename = f,
                                    !.optionsLanguage = l, !.constructs = ks] :
                  f \in Filenames, l \in {"none", "python", "cobol"},
                  ks \in {s \in SUBSET Constructs : Cardinality(s) <= MaxConstructs}}
    /\ OlderIdle /\ TokenIdle /\ GrammarIdle /\ ScanIdle /\ ClassifyIdle /\ SandboxIdle /\ ApplyIdle /\ EquivIdle /\ SessionsIdle /\ InlineIdle

\* options.language || grammarLoader.detectLanguage(filename)
Language ==
    IF det.optionsLanguage # "none" THEN det.optionsLanguage ELSE detectLanguage(det.filename)

analyzeFile_unsupported ==
    /\ det.pc = "called"
    /\ Language = "null" \/ ~isSupported(Language)
    /\ det' = [det EXCEPT !.pc = "returned",
                          !.result = [language |-> IF Language = "null" THEN "unknown" ELSE Language,
                                      astSupported |-> FALSE, error |-> FALSE,
                                      violations |-> {}]]
    /\ UNCHANGED notDetect

\* grammarLoader.parse throws (the grammar could not be loaded)
analyzeFile_parseError ==
    /\ det.pc = "called"
    /\ Language # "null" /\ isSupported(Language)
    /\ det' = [det EXCEPT !.pc = "returned",
                          !.result = [language |-> Language, astSupported |-> TRUE,
                                      error |-> TRUE, violations |-> {}]]
    /\ UNCHANGED notDetect

\* the file is parsed and every query of the language is run: a violation with
\* the rule's name for each match that is not suppressed
analyzeFile_queries ==
    /\ det.pc = "called"
    /\ Language # "null" /\ isSupported(Language)
    /\ det' = [det EXCEPT
                 !.pc = "returned",
                 !.result = [language |-> Language, astSupported |-> TRUE, error |-> FALSE,
                             violations |->
                                {rule.name : rule \in
                                    {r \in getQueries(Language) :
                                        \E k \in matches(r, det.constructs) : ~k.suppressed}}]]
    /\ UNCHANGED notDetect

DetectNext ==
    \/ analyzeFile_unsupported
    \/ analyzeFile_parseError
    \/ analyzeFile_queries

SpecDetect == DetectInit /\ [][DetectNext]_vars

\* the language the claim expects for a file name
ExpectedLanguage(filename) ==
    CASE filename \in {"test.js", "component.jsx", "lib.mjs", "App.JS"} -> "javascript"
      [] filename = "service.ts" -> "typescript"
      [] filename = "view.tsx" -> "tsx"
      [] filename = "app.py" -> "python"
      [] filename = "Example.java" -> "java"
      [] filename = "main.go" -> "go"
      [] filename \in {"main.c", "util.h"} -> "c"
      [] OTHER -> "none"

\* the catalog whose rules the claim expects to be applied to a language
ExpectedCatalog(language) == IF language = "tsx" THEN "typescript" ELSE language

notApply == <<olderVars, tkVars, glVars, scVars, clVars, sbVars, dtVars, eqVars, ssVars, jbVars>>

\* most issues handed to one fix pass
MaxPassIssues == 2

ApplyInit ==
    /\ ap \in {[NoPass EXCEPT !.impl = i, !.pc = "start",
                              !.passIssues = [k \in 1..Len(fs) |-> Issue(fs[k], "ast")]] :
                 i \in {"graph", "orch"}, fs \in SeqsUpTo(Files, MaxPassIssues) \ {<<>>}}
    /\ OlderIdle /\ TokenIdle /\ GrammarIdle /\ ScanIdle /\ ClassifyIdle /\ SandboxIdle /\ DetectIdle /\ EquivIdle /\ SessionsIdle /\ InlineIdle

PassFiles == {ap.passIssues[i].file : i \in 1..Len(ap.passIssues)}

\* the files whose content the pass modified, in the order of their fixes
PendingFiles(fixes) ==
    LET pending == SelectSeq(fixes, LAMBDA f : f.pending)
    IN  [i \in 1..Len(pending) |-> pending[i].file]

\* generate_fixes: every file of the pass is fixed, the modified content is
\* stashed on the last applied fix of the file; apply_commit then collects the
\* pending commits
applyCommit_collect ==
    /\ ap.impl = "graph" /\ ap.pc = "start"
    /\ \E found \in [PassFiles -> BOOLEAN], ch \in [PassFiles -> BOOLEAN],
          outs \in [1..Len(ap.passIssues) -> FixOutcomes] :
          /\ \A f \in PassFiles : ChangedOK(OutcomesOf(ap.passIssues, outs, f), ch[f])
          /\ LET fixes == FixesForFiles(FilesOf(ap.passIssues), ap.passIssues, found, outs,
                                        ch, 0)
             IN  ap' = [ap EXCEPT !.pc = "commit", !.fixes = fixes,
                                  !.queue = PendingFiles(fixes),
                                  !.changed = {fixes[i].file : i \in {j \in 1..Len(fixes) :
                                                                        fixes[j].pending}}]
    /\ UNCHANGED notApply

\* the catch block of apply_commit: console.error, the fixes stay as they are
LogCommitError(fixes, f) == fixes

\* apply_commit: branchManager.commitFile for the next pending commit, in try/catch
applyCommit_commitFile ==
    /\ ap.impl = "graph" /\ ap.pc = "commit" /\ ap.queue # <<>>
    /\ LET f == Head(ap.queue)
       IN  \E ok \in BOOLEAN :
              ap' = [ap EXCEPT !.queue = Tail(ap.queue),
                               !.committed = IF ok THEN @ \cup {f} ELSE @,
                               !.failed = IF ok THEN @ ELSE @ \cup {f},
                               !.fixes = IF ok THEN @ ELSE LogCommitError(@, f)]
    /\ UNCHANGED notApply

applyCommit_return ==
    /\ ap.impl = "graph" /\ ap.pc = "commit" /\ ap.queue = <<>>
    /\ ap' = [ap EXCEPT !.pc = "done"]
    /\ UNCHANGED notApply

\* _applyFixes is entered: the files of issuesByFile
applyPass_enter ==
    /\ ap.impl = "orch" /\ ap.pc = "start"
    /\ ap' = [ap EXCEPT !.pc = "file", !.queue = FilesOf(ap.passIssues)]
    /\ UNCHANGED notApply

\* _applyFixes: the issues of one file are fixed; a modified file goes on to its commit
applyPass_file ==
    /\ ap.impl = "orch" /\ ap.pc = "file" /\ ap.queue # <<>>
    /\ LET f == Head(ap.queue)
           n == Len(SelectSeq(ap.passIssues, LAMBDA i : i.file = f))
       IN  \E found \in BOOLEAN, ch \in BOOLEAN, outs \in [1..n -> FixOutcomes] :
              /\ ChangedOK(outs, ch)
              /\ ap' = [ap EXCEPT
                          !.fixes = @ \o FixesForFile(f, found, outs, ch, 0, FALSE),
                          !.pc = IF found /\ ch THEN "commit" ELSE "file",
                          !.queue = IF found /\ ch THEN @ ELSE Tail(@),
                          !.changed = IF found /\ ch THEN @ \cup {f} ELSE @]
    /\ UNCHANGED notApply

\* _applyFixes: commitFile for the modified file; the catch block marks its fixes
applyPass_commit ==
    /\ ap.impl = "orch" /\ ap.pc = "commit"
    /\ LET f == Head(ap.queue)
       IN  \E ok \in BOOLEAN :
              ap' = [ap EXCEPT !.pc = "file",
                               !.queue = Tail(ap.queue),
                               !.committed = IF ok THEN @ \cup {f} ELSE @,
                               !.failed = IF ok THEN @ ELSE @ \cup {f},
                               !.fixes = IF ok THEN @ ELSE MarkCommitFailed(@, f)]
    /\ UNCHANGED notApply

applyPass_return ==
    /\ ap.impl = "orch" /\ ap.pc = "file" /\ ap.queue = <<>>
    /\ ap' = [ap EXCEPT !.pc = "done"]
    /\ UNCHANGED notApply

ApplyNext ==
    \/ applyCommit_collect
    \/ applyCommit_commitFile
    \/ applyCommit_return
    \/ applyPass_enter
    \/ applyPass_file
    \/ applyPass_commit
    \/ applyPass_return

SpecApply == ApplyInit /\ [][ApplyNext]_vars

\* C34: when the commit of a file's pending content has failed, every fix of the
\* pass for that file that was applied has status commit_failed, none is left
\* applied; and when the pass is over a commit was tried for every modified
\* file, failed commits of other files notwithstanding.
C34_CommitFailureMarked ==
    /\ \A i \in 1..Len(ap.fixes) :
          ap.fixes[i].file \in ap.failed => ap.fixes[i].status # "applied"
    /\ ap.pc = "done" => ap.changed = ap.committed \cup ap.failed
\* ---------------------------------------------------------------------------
\* The healing graph and the Orchestrator run on the same issue with the same
\* answers of the agents (src/unnamed/part_004)
\* ---------------------------------------------------------------------------

notEquiv == <<olderVars, tkVars, glVars, scVars, clVars, sbVars, dtVars, apVars, ssVars, jbVars>>

\* most CI results the script prescribes (later checks pass)
MaxScript == 2

Scripts ==
    [fix : {"fixed", "nofix"}, commitOk : BOOLEAN, hasCi : BOOLEAN,
     ci : UNION {[1..n -> CIResults] : n \in 0..MaxScript}]

EquivInit ==
    /\ script \in Scripts
    /\ gs = [NoSession EXCEPT !.node = "START", !.issues = <<Issue("a.js", "ast")>>]
    /\ os = [NoSession EXCEPT !.node = "START", !.issues = <<Issue("a.js", "ast")>>]
    /\ OlderIdle /\ TokenIdle /\ GrammarIdle /\ ScanIdle /\ ClassifyIdle /\ SandboxIdle /\ DetectIdle /\ ApplyIdle /\ SessionsIdle /\ InlineIdle

\* the answer of the k-th waitForChecks call
CIAnswer(k) ==
    IF k <= Len(script.ci) THEN script.ci[k] ELSE [status |-> "PASSED", failureLogs |-> <<>>]

Called(calls, name) == Cardinality({i \in 1..Len(calls) : calls[i] = name})

Row(it, st) == [iteration |-> it, status |-> st]

\* the fix entries of the issues of one file, all answered alike by the FixAgent
ScriptedFixes(iss, stash) ==
    [i \in 1..Len(iss) |->
        [status |-> StatusOf(script.fix),
         pending |-> stash /\ script.fix = "fixed" /\ i = Len(iss)]]

Applied(fixes) == Cardinality({i \in 1..Len(fixes) : fixes[i].status = "applied"})

\* retryDecision on a session's state
Decide(st, rc) ==
    IF st \in {"PASSED", "NO_CI", "SKIPPED"} THEN "UPDATE_PR_AND_END"
    ELSE IF st = "FAILED" /\ rc < MAX_RETRIES THEN "GENERATE_FIXES"
    ELSE "UPDATE_PR_AND_END"

GraphAfter ==
    IF gs.node = "MONITOR_CI" THEN Decide(gs.ci_status, gs.retry_count) ELSE GraphEdge(gs.node)

graph_analyzeRepo ==
    /\ GraphAfter = "ANALYZE"
    /\ gs' = [gs EXCEPT !.node = "ANALYZE"]
    /\ UNCHANGED <<script, os, notEquiv>>

graph_generateFixes ==
    /\ GraphAfter = "GENERATE_FIXES"
    /\ LET toFix == IF gs.retry_count > 0
                    THEN SelectSeq(gs.issues, LAMBDA i : i.source = "ci")
                    ELSE gs.issues
       IN  gs' = [gs EXCEPT !.node = "GENERATE_FIXES",
                            !.fixes = @ \o ScriptedFixes(toFix, TRUE)]
    /\ UNCHANGED <<script, os, notEquiv>>

\* one commitFile call for every fix of the state that carries a pending commit
graph_applyCommit ==
    /\ GraphAfter = "APPLY_COMMIT"
    /\ LET pending == SelectSeq(gs.fixes, LAMBDA f : f.pending)
       IN  gs' = [gs EXCEPT !.node = "APPLY_COMMIT",
                            !.calls = @ \o [i \in 1..Len(pending) |-> "commitFile"]]
    /\ UNCHANGED <<script, os, notEquiv>>

graph_pushBranch ==
    /\ GraphAfter = "OPEN_PR"
    /\ gs' = IF Applied(gs.fixes) = 0
             THEN [gs EXCEPT !.node = "OPEN_PR", !.ci_status = "SKIPPED"]
             ELSE [gs EXCEPT !.node = "OPEN_PR", !.calls = Append(@, "createPR")]
    /\ UNCHANGED <<script, os, notEquiv>>

graph_monitorCI ==
    /\ GraphAfter = "MONITOR_CI"
    /\ gs' = IF ~script.hasCi
             THEN [gs EXCEPT !.node = "MONITOR_CI", !.ci_status = "NO_CI",
                             !.ci_timeline = Append(@, Row(gs.retry_count, "NO_CI"))]
             ELSE LET ciResult == CIAnswer(Called(gs.calls, "waitForChecks") + 1)
                      newRetry == gs.retry_count + 1
                      ciIssues == CIIssues(ciResult.failureLogs)
                  IN  [gs EXCEPT !.node = "MONITOR_CI",
                                 !.calls = Append(@, "waitForChecks"),
                                 !.retry_count = newRetry,
                                 !.ci_status = ciResult.status,
                                 !.ci_timeline = Append(@, Row(newRetry, ciResult.status)),
                                 !.issues = IF ciResult.status = "FAILED" /\ Len(ciIssues) > 0
                                            THEN ciIssues ELSE @]
    /\ UNCHANGED <<script, os, notEquiv>>

graph_updatePR ==
    /\ GraphAfter = "UPDATE_PR_AND_END"
    /\ gs' = [gs EXCEPT !.node = "UPDATE_PR_AND_END"]
    /\ UNCHANGED <<script, os, notEquiv>>

\* _applyFixes(iss) on the Orchestrator's session: the fixes are recorded, a
\* modified file is committed, a failed commit marks the fixes
ApplyFixes(s, iss) ==
    LET fixes == s.fixes \o ScriptedFixes(iss, FALSE)
        commits == iss # <<>> /\ script.fix = "fixed"
    IN  [s EXCEPT !.fixes = IF commits /\ ~script.commitOk
                            THEN [i \in 1..Len(fixes) |->
                                    IF fixes[i].status = "applied"
                                    THEN [fixes[i] EXCEPT !.status = "commit_failed"]
                                    ELSE fixes[i]]
                            ELSE fixes,
                  !.calls = IF commits THEN Append(@, "commitFile") ELSE @]

\* the length of the appliedFixes list that _applyFixes(iss) returns
AppliedCount(iss) == IF script.fix = "fixed" THEN Len(iss) ELSE 0

\* Orchestrator.run up to the call of _ciRetryLoop
orch_run ==
    /\ gs.node = "UPDATE_PR_AND_END"
    /\ os.node = "START"
    /\ LET fixed == ApplyFixes(os, os.issues)
       IN  os' = IF AppliedCount(os.issues) = 0
                 THEN [fixed EXCEPT !.node = "UPDATE_PR_AND_END", !.ci_status = "SKIPPED"]
                 ELSE [fixed EXCEPT !.node = "OPEN_PR", !.calls = Append(@, "createPR")]
    /\ UNCHANGED <<script, gs, notEquiv>>

\* _ciRetryLoop: hasCIConfigured
orch_hasCI ==
    /\ os.node = "OPEN_PR"
    /\ os' = IF ~script.hasCi
             THEN [os EXCEPT !.node = "UPDATE_PR_AND_END", !.ci_status = "NO_CI",
                             !.ci_timeline = Append(@, Row(0, "NO_CI"))]
             ELSE [os EXCEPT !.node = "MONITOR_CI"]
    /\ UNCHANGED <<script, gs, notEquiv>>

\* _ciRetryLoop: the loop test and one turn of the while loop
orch_loop ==
    /\ os.node = "MONITOR_CI"
    /\ os' = IF ~(os.retry_count < MAX_RETRIES)
             THEN [os EXCEPT !.node = "UPDATE_PR_AND_END", !.ci_status = "FAILED"]
             ELSE LET ciResult == CIAnswer(Called(os.calls, "waitForChecks") + 1)
                      retryCount == os.retry_count + 1
                      checked == [os EXCEPT !.calls = Append(@, "waitForChecks"),
                                            !.retry_count = retryCount,
                                            !.ci_status = ciResult.status,
                                            !.ci_timeline = Append(@, Row(retryCount,
                                                                         ciResult.status))]
                  IN  IF ciResult.status = "PASSED" \/ retryCount >= MAX_RETRIES
                      THEN [checked EXCEPT !.node = "UPDATE_PR_AND_END"]
                      ELSE IF Len(ciResult.failureLogs) > 0
                      THEN ApplyFixes(checked, CIIssues(ciResult.failureLogs))
                      ELSE checked
    /\ UNCHANGED <<script, gs, notEquiv>>

EquivNext ==
    \/ graph_analyzeRepo
    \/ graph_generateFixes
    \/ graph_applyCommit
    \/ graph_pushBranch
    \/ graph_monitorCI
    \/ graph_updatePR
    \/ orch_run
    \/ orch_hasCI
    \/ orch_loop

SpecEquiv == EquivInit /\ [][EquivNext]_vars

BothEnded == gs.node = "UPDATE_PR_AND_END" /\ os.node = "UPDATE_PR_AND_END"

\* C36: given the same issue and the same answers of FixAgent, BranchManager,
\* PRCreator and CIAgent, the healing graph and the Orchestrator make the same
\* sequence of commitFile, createPR and waitForChecks calls and end with the
\* same ci_status, retry_count and ci_timeline.
C36_SameCallsAndResult ==
    BothEnded =>
        /\ gs.calls = os.calls
        /\ gs.ci_status = os.ci_status
        /\ gs.retry_count = os.retry_count
        /\ gs.ci_timeline = os.ci_timeline
\* ---------------------------------------------------------------------------
\* Heal sessions running at the same time on one repository: the branch name
\* of RepoHealerEngine, createBranch and the first commit
\* (src/unnamed/part_005, src/web/lib/repo-healer/branch-manager.js)
\* ---------------------------------------------------------------------------

notSessions == <<olderVars, tkVars, glVars, scVars, clVars, sbVars, dtVars, apVars, eqVars, jbVars>>

SessionIds == {"s1", "s2"}
TeamNames == {"acme", "Acme!", "zeta"}
LeaderNames == {"lee"}

\* clean: upper case, everything but letters, digits and blanks removed
clean(str) ==
    CASE str = "acme" -> "ACME"
      [] str = "Acme!" -> "ACME"
      [] str = "zeta" -> "ZETA"
      [] str = "lee" -> "LEE"
      [] OTHER -> ""

\* `${clean(teamName)}_${clean(leaderName)}_AI_Fix`
generateBranchName(teamName, leaderName) == <<clean(teamName), clean(leaderName), "AI_Fix">>

BranchNames == {generateBranchName(t, l) : t \in TeamNames, l \in LeaderNames}

SessionsInit ==
    /\ heads \in [BranchNames -> [exists : BOOLEAN, commits : {{}}]]
    /\ sessions \in [SessionIds ->
                       [teamName : TeamNames, leaderName : LeaderNames, pc : {"getRef"},
                        committed : {FALSE}]]
    /\ OlderIdle /\ TokenIdle /\ GrammarIdle /\ ScanIdle /\ ClassifyIdle /\ SandboxIdle /\ DetectIdle /\ ApplyIdle /\ EquivIdle /\ InlineIdle

branchName(s) == generateBranchName(sessions[s].teamName, sessions[s].leaderName)

SessionAt(s, pc) == sessions' = [sessions EXCEPT ![s].pc = pc]

\* createBranch: git.getRef(heads/name) inside the try
session_getRef(s) ==
    /\ sessions[s].pc = "getRef"
    /\ SessionAt(s, IF heads[branchName(s)].exists THEN "deleteRef" ELSE "createRef")
    /\ UNCHANGED <<heads, notSessions>>

\* the forge: deleting a ref drops the commits only it kept reachable
DeleteRef(name) == [heads EXCEPT ![name] = [exists |-> FALSE, commits |-> {}]]

\* createBranch: "Branch exists - delete it first for clean run"; an error of
\* deleteRef (the ref is gone already) is swallowed by the catch
session_deleteRef(s) ==
    /\ sessions[s].pc = "deleteRef"
    /\ heads' = IF heads[branchName(s)].exists THEN DeleteRef(branchName(s)) ELSE heads
    /\ SessionAt(s, "createRef")
    /\ UNCHANGED notSessions

\* createBranch: git.createRef at the base sha; the forge rejects a ref that
\* exists, and the error ends RepoHealerEngine.run
session_createRef(s) ==
    /\ sessions[s].pc = "createRef"
    /\ IF heads[branchName(s)].exists
       THEN SessionAt(s, "failed") /\ UNCHANGED heads
       ELSE /\ heads' = [heads EXCEPT ![branchName(s)] = [exists |-> TRUE, commits |-> {}]]
            /\ SessionAt(s, "commitFile")
    /\ UNCHANGED notSessions

\* the Orchestrator commits a fixed file to the branch; on a branch that is
\* gone commitFile throws and the fix is marked commit_failed
session_commitFile(s) ==
    /\ sessions[s].pc = "commitFile"
    /\ IF heads[branchName(s)].exists
       THEN /\ heads' = [heads EXCEPT ![branchName(s)].commits = @ \cup {s}]
            /\ sessions' = [sessions EXCEPT ![s].pc = "done", ![s].committed = TRUE]
       ELSE /\ SessionAt(s, "done")
            /\ UNCHANGED heads
    /\ UNCHANGED notSessions

SessionsNext ==
    \E s \in SessionIds :
       \/ session_getRef(s)
       \/ session_deleteRef(s)
       \/ session_createRef(s)
       \/ session_commitFile(s)

SpecSessions == SessionsInit /\ [][SessionsNext]_vars

\* C37: of two heal sessions that run at the same time on one repository with
\* the same derived branch name, neither loses a fix it committed: the commit
\* stays on the branch, the other session's createBranch does not delete or
\* reset the branch after it.
C37_NoLostCommit ==
    \A s \in SessionIds, t \in SessionIds :
       (s # t /\ branchName(s) = branchName(t) /\ sessions[s].committed)
          => /\ heads[branchName(s)].exists
             /\ s \in heads[branchName(s)].commits
\* ---------------------------------------------------------------------------
\* One inline analysis as the forge and the Store see it: the commit statuses
\* of the head commit, the violation rows, the review or comment on the PR
\* (src/web/app/api/github/webhook/route.js, runInlineAnalysis)
\* ---------------------------------------------------------------------------

notInline == <<olderVars, tkVars, glVars, scVars, clVars, sbVars, dtVars, apVars, eqVars, ssVars>>

\* violations one analysis finds at most
MaxFound == 2

\* the job data are read, nothing is awaited yet; the Analysis record is PENDING
InlineInit ==
    /\ job = [pc |-> "getOctokit", commit |-> <<>>, found |-> 0, created |-> 0,
              posted |-> FALSE, status |-> "PENDING"]
    /\ OlderIdle /\ TokenIdle /\ GrammarIdle /\ ScanIdle /\ ClassifyIdle /\ SandboxIdle /\ DetectIdle /\ ApplyIdle /\ EquivIdle /\ SessionsIdle

JobTo(p) == [job EXCEPT !.pc = p]

\* getInstallationOctokit(installationId), inside the outer try
inline_getOctokit ==
    /\ job.pc = "getOctokit"
    /\ \E ok \in BOOLEAN : job' = JobTo(IF ok THEN "pendingStatus" ELSE "catch")
    /\ UNCHANGED notInline

\* createCommitStatus({state: 'pending'}) in its own try/catch: a failure is logged
inline_pendingStatus ==
    /\ job.pc = "pendingStatus"
    /\ \E ok \in BOOLEAN :
          job' = [job EXCEPT !.pc = "listFiles",
                             !.commit = Append(@, [state |-> "pending", ok |-> ok])]
    /\ UNCHANGED notInline

\* pulls.listFiles
inline_listFiles ==
    /\ job.pc = "listFiles"
    /\ \E ok \in BOOLEAN : job' = JobTo(IF ok THEN "findRules" ELSE "catch")
    /\ UNCHANGED notInline

\* prisma.rule.findMany, then the loop over the files that fills allViolations
\* (a file whose content cannot be fetched is skipped)
inline_findRules ==
    /\ job.pc = "findRules"
    /\ \E ok \in BOOLEAN, n \in 0..MaxFound :
          job' = IF ok THEN [job EXCEPT !.pc = "commitStatus", !.found = n]
                 ELSE JobTo("catch")
    /\ UNCHANGED notInline

\* state: allViolations.length > 0 ? 'failure' : 'success'
FinalState(found) == IF found > 0 THEN "failure" ELSE "success"

\* createCommitStatus(failure | success) in its own try/catch
inline_commitStatus ==
    /\ job.pc = "commitStatus"
    /\ \E ok \in BOOLEAN :
          job' = [job EXCEPT !.pc = IF job.found > 0 THEN "createViolation" ELSE "post",
                             !.commit = Append(@, [state |-> FinalState(job.found), ok |-> ok])]
    /\ UNCHANGED notInline

\* for (const v of allViolations) await prisma.violation.create(...)
inline_createViolation ==
    /\ job.pc = "createViolation"
    /\ \E ok \in BOOLEAN :
          job' = IF ok
                 THEN [job EXCEPT !.created = @ + 1,
                                  !.pc = IF job.created + 1 = job.found THEN "post" ELSE @]
                 ELSE JobTo("catch")
    /\ UNCHANGED notInline

\* createReview, with createComment as the fallback, or the success comment;
\* every call in a try/catch
inline_post ==
    /\ job.pc = "post"
    /\ \E ok \in BOOLEAN : job' = [job EXCEPT !.pc = "update", !.posted = ok]
    /\ UNCHANGED notInline

\* prisma.analysis.update({status: 'SUCCESS'}), the Slack notification in its
\* try/catch, return
inline_update ==
    /\ job.pc = "update"
    /\ \E ok \in BOOLEAN :
          job' = IF ok THEN [job EXCEPT !.pc = "done", !.status = "SUCCESS"]
                 ELSE JobTo("catch")
    /\ UNCHANGED notInline

\* the outer catch: prisma.analysis.update({status: 'FAILURE'}) and throw error;
\* no commit status is set here
inline_catch ==
    /\ job.pc = "catch"
    /\ \E ok \in BOOLEAN :
          job' = [job EXCEPT !.pc = "thrown", !.status = IF ok THEN "FAILURE" ELSE @]
    /\ UNCHANGED notInline

InlineNext ==
    \/ inline_getOctokit
    \/ inline_pendingStatus
    \/ inline_listFiles
    \/ inline_findRules
    \/ inline_commitStatus
    \/ inline_createViolation
    \/ inline_post
    \/ inline_update
    \/ inline_catch

SpecInline == InlineInit /\ [][InlineNext]_vars

\* every awaited call of the job comes back
FairInline == SpecInline /\ WF_jbVars(InlineNext)

\* the states createCommitStatus was called with, and those the forge took
StatesTried == {job.commit[k].state : k \in 1..Len(job.commit)}
StatesSet == {job.commit[k].state : k \in {n \in 1..Len(job.commit) : job.commit[n].ok}}

\* C38: in inline PR analysis all violations found are rows of the Store when
\* the final commit status (success or failure) is set, and when the review or
\* comment is posted to the PR.
C38_PersistedFirst ==
    [][/\ (Len(job'.commit) > Len(job.commit)
             /\ job'.commit[Len(job'.commit)].state \in {"success", "failure"})
          => job'.created = job'.found
       /\ (job.pc = "post" /\ job'.pc # "post") => job'.created = job'.found]_vars

\* C39: once inline analysis has set the status of the head commit to pending,
\* it eventually sets a terminal status (success, failure or error) for the
\* commit, also when listing the PR files, loading the rules or persisting the
\* violations fails (a status the job tried to set and the forge refused counts
\* as set here).
C39_PendingEnds ==
    ("pending" \in StatesSet) ~> (StatesTried \cap {"success", "failure", "error"} # {})

====
